---- MODULE Spec2Model ----
(***************************************************************************)
(* ReactiveTwoFieldCollection (reactive_two_field_collection.h): a         *)
(* collection of two-field elements with two live Totals and an optional   *)
(* ordered index of ids.  The model takes the default extract functors;    *)
(* the delta and apply functors are the default ones except under          *)
(* SpecFunctors; the keyed specifications model a KeyT                     *)
(* instantiation, the others the KeyT = void one.  elem1 is                *)
(* kept as an integer (a double scaled by a fixed factor); all values stay *)
(* far inside the 64-bit range, so no arithmetic wraps, except under       *)
(* SpecApply, where the Total's type is Width bits wide.                   *)
(***************************************************************************)
EXTENDS Integers, Sequences, FiniteSets, TLC

VARIABLES
    Total1Mode,            \* template parameter AggMode Total1Mode
    Total2Mode,            \* template parameter AggMode Total2Mode
    MaintainOrderedIndex,  \* template parameter bool MaintainOrderedIndex
    combined_atomic_,      \* constructor argument combined_atomic
    coarse_lock_enabled_,  \* RequireCoarseLock ? true : coarse_lock
    cmp_,                  \* runtime comparator (a name, see CompareFn)
    elems_,                \* id -> [lastElem1, lastElem2]
    monitors_,             \* ids that hold an open change subscription
    ordered_index_,        \* the std::set<id_type, IdComparator>, in order
    index_cmp_,            \* the comparator copy held by ordered_index_
    idx1_, idx2_,          \* count maps: extracted value -> count
    total1_, total2_,      \* values of the two Total cells
    nextId_,               \* next id to hand out
    notified,              \* observer of both Totals: the (total1,total2)
                           \* pairs it was notified with by the last call
    idx_ops,               \* ordered_index_ insert/erase calls of the last call
    ret,                   \* value returned by the last call
    last,                  \* the last public call: [op, arg, old]: its name, its
                           \* id or k, the snapshot the element had before it
    coarse_mtx_,           \* owner of coarse_mtx_ (0: free)
    ordered_mtx_,          \* owner of ordered_mtx_ (0: free)
    combined_mtx_,         \* owner of combined_mtx_ (0: free)
    total1_mtx_,           \* owner of total1_mtx_ (0: free)
    total2_mtx_,           \* owner of total2_mtx_ (0: free)
    pc,                    \* per thread: position in its current call
    loc,                   \* per thread: locals of its current call
    todo,                  \* per thread: program left to run
    got,                   \* per thread: ids returned by its push_back calls
    script,                \* scripted scenario: inputs and position
    key_,                  \* id -> ElemRecord::key (keyed instantiation)
    key_index_,            \* key -> id
    issued,                \* every id returned by push_one so far, in order
    erases,                \* number of erase calls so far that found their id
    delta1_, apply1_,      \* Delta1Fn, Apply1Fn of the instantiation, by name
    delta2_, apply2_,      \* Delta2Fn, Apply2Fn of the instantiation, by name
    minv, maxv             \* the bounds held by apply1_ when it is a SaturatingApply

data == <<elems_, monitors_, ordered_index_, index_cmp_, idx1_, idx2_,
          total1_, total2_, nextId_>>
config == <<Total1Mode, Total2Mode, MaintainOrderedIndex, combined_atomic_,
            coarse_lock_enabled_, delta1_, apply1_, delta2_, apply2_, minv, maxv>>
ghost == <<notified, idx_ops, ret, last>>
fine == <<combined_mtx_, total1_mtx_, total2_mtx_>>
threads == <<coarse_mtx_, ordered_mtx_, fine, pc, loc, todo, got>>
keyed == <<key_, key_index_>>
rest == <<script, keyed, issued, erases>>
vars == <<config, cmp_, data, ghost, threads, rest>>

(***************************************************************************)
(* Bounds and input sets                                                   *)
(***************************************************************************)
MaxId == 3
Ids == 1..MaxId
Elem1Vals == {1, 2}
Elem2Vals == {1, 2}
AggModes == {"Add", "Min", "Max"}
Compares == {"DefaultCompare", "ByElem1", "ByElem2Desc"}

NoVal == <<>>
Some(v) == <<v>>
Call(op, arg, old) == [op |-> op, arg |-> arg, old |-> old]
Neutral == <<0, 0>>
NoCall == Call("none", 0, Neutral)

(***************************************************************************)
(* Functors                                                                *)
(***************************************************************************)
\* slip: the old elem1 is subtracted instead of the old elem2
DefaultDelta1_wrong_last(new1, new2, last1, last2) == new2 - last1

DefaultDelta1(new1, new2, last1, last2) == new2 - last2

\* slip: the old product is taken without its elem1 factor
DefaultDelta2_no_last1(new1, new2, last1, last2) == new2 * new1 - last2

DefaultDelta2(new1, new2, last1, last2) == new2 * new1 - last2 * last1

DefaultApplyAdd(total, d) == total + d

\* NoopDelta: DeltaType{}
NoopDelta(new1, new2, last1, last2) == 0

\* ReturnNewElem2 (delta functor of the SetApply demo): the new elem2
ReturnNewElem2(new1, new2, last1, last2) == new2

\* an apply functor gives the total it leaves and the bool it returns
\* NoopApply: total untouched, false
NoopApply(total, d) == [total |-> total, changed |-> FALSE]

\* slip: the total is overwritten but false is still returned for every d
SetApply_never_changed(total, d) == [total |-> d, changed |-> FALSE]

\* SetApply: false if total == d, otherwise total = d and true
SetApply(total, d) ==
    IF total = d THEN [total |-> total, changed |-> FALSE]
    ELSE [total |-> d, changed |-> TRUE]

ApplyFns == {"DefaultApplyAdd", "NoopApply", "SetApply"}

\* delta1_(new1, new2, last1, last2) and delta2_(...) of the instantiation
DeltaFn(f, new1, new2, last1, last2) ==
    CASE f = "DefaultDelta1" -> DefaultDelta1(new1, new2, last1, last2)
      [] f = "DefaultDelta2" -> DefaultDelta2(new1, new2, last1, last2)
      [] f = "NoopDelta" -> NoopDelta(new1, new2, last1, last2)
      [] f = "ReturnNewElem2" -> ReturnNewElem2(new1, new2, last1, last2)

\* apply1_(cur, d) and apply2_(cur, d) of the instantiation
ApplyFn(f, total, d) ==
    CASE f = "DefaultApplyAdd" -> [total |-> DefaultApplyAdd(total, d), changed |-> TRUE]
      [] f = "NoopApply" -> NoopApply(total, d)
      [] f = "SetApply" -> SetApply(total, d)

\* apply1_is_default_add(), apply2_is_default_add()
apply_is_default_add(f) == f = "DefaultApplyAdd"

\* Where the width of TotalT matters it is a signed integer type of Width
\* bits: numeric_limits<TotalT>::lowest() is TMin, max() is TMax.
Width == 4
TMin == -(2 ^ (Width - 1))
TMax == 2 ^ (Width - 1) - 1
TotalValues == TMin..TMax

\* total + d (and total += d) in TotalT: the exact sum when TotalT holds it;
\* otherwise the addition overflows, which is undefined for a signed type,
\* and any value of the type, the wrapped one included, may come out
Add(total, d) == IF total + d \in TotalValues THEN {total + d} ELSE TotalValues

\* SaturatingApply: nv = total + d; if (nv < minv) nv = minv;
\* if (nv > maxv) nv = maxv; if (nv == total) return false; total = nv;
\* return true.  One outcome for each value the addition may give.
SaturatingApply(total, d, lo, hi) ==
    {LET a == IF nv < lo THEN lo ELSE nv
         b == IF a > hi THEN hi ELSE a
     IN [total |-> b, changed |-> b # total] : nv \in Add(total, d)}

ApplyStrategies == ApplyFns \cup {"SaturatingApply"}

\* apply1_(cur, d) in TotalT: the totals it may leave, each with the bool returned
ApplyOutcomes(f, total, d) ==
    CASE f = "DefaultApplyAdd" -> {[total |-> v, changed |-> TRUE] : v \in Add(total, d)}
      [] f = "SaturatingApply" -> SaturatingApply(total, d, minv, maxv)
      [] OTHER -> {ApplyFn(f, total, d)}

DefaultExtract1(e1, e2) == e2

DefaultExtract2(e1, e2) == e2 * e1

DefaultCompare(a1, a2, b1, b2) ==
    IF a1 < b1 THEN TRUE
    ELSE IF b1 < a1 THEN FALSE
    ELSE a2 < b2

\* compare_fn_t: the callables handed to set_compare are named; each is a
\* strict weak ordering over (elem1, elem2), as the comparator contract asks.
CompareFn(c, a1, a2, b1, b2) ==
    CASE c = "DefaultCompare" -> DefaultCompare(a1, a2, b1, b2)
      [] c = "ByElem1" -> a1 < b1
      [] c = "ByElem2Desc" -> b2 < a2

IdComparator(c, E, a, b) ==
    IF a = b THEN FALSE
    ELSE IF CompareFn(c, E[a].lastElem1, E[a].lastElem2, E[b].lastElem1, E[b].lastElem2) THEN TRUE
    ELSE IF CompareFn(c, E[b].lastElem1, E[b].lastElem2, E[a].lastElem1, E[a].lastElem2) THEN FALSE
    ELSE a < b

(***************************************************************************)
(* std::set<id_type, IdComparator> as the sequence of its keys in order    *)
(***************************************************************************)
\* position of the first key that is not less than id (Len(s)+1 if none)
LowerBound(c, E, s, id) ==
    LET P == {i \in 1..Len(s) : ~IdComparator(c, E, s[i], id)}
    IN IF P = {} THEN Len(s) + 1 ELSE CHOOSE i \in P : \A j \in P : i <= j

\* slip: the id is appended instead of placed by the comparator
set_insert_append(c, E, s, id) ==
    IF \E i \in 1..Len(s) : s[i] = id THEN s ELSE Append(s, id)

set_insert(c, E, s, id) ==
    LET p == LowerBound(c, E, s, id)
    IN IF p <= Len(s) /\ ~IdComparator(c, E, id, s[p])
       THEN s
       ELSE SubSeq(s, 1, p - 1) \o <<id>> \o SubSeq(s, p, Len(s))

set_erase(c, E, s, id) ==
    LET p == LowerBound(c, E, s, id)
    IN IF p <= Len(s) /\ ~IdComparator(c, E, id, s[p])
       THEN SubSeq(s, 1, p - 1) \o SubSeq(s, p + 1, Len(s))
       ELSE s

RECURSIVE InsertAll(_, _, _, _)
InsertAll(c, E, s, todoIds) ==
    IF todoIds = {} THEN s
    ELSE LET id == CHOOSE x \in todoIds : \A y \in todoIds : x <= y
         IN InsertAll(c, E, set_insert(c, E, s, id), todoIds \ {id})

\* slip: the new set is built with a default-constructed comparator
NewSet_default_compare(c, E) == InsertAll("DefaultCompare", E, <<>>, DOMAIN E)

\* new_set.emplace(IdComparator(this, cmp_)); for (kv : elems_) new_set->insert(kv.first)
NewSet(c, E) == InsertAll(c, E, <<>>, DOMAIN E)

(***************************************************************************)
(* Count maps (idx1_, idx2_) and the extreme read from them                *)
(***************************************************************************)
\* slip: idx_[v] = 1 instead of ++idx_[v]
insert_index_sets_one(idx, v) ==
    [x \in DOMAIN idx \cup {v} |-> IF x = v THEN 1 ELSE idx[x]]

insert_index(idx, v) ==
    IF v \in DOMAIN idx THEN [idx EXCEPT ![v] = @ + 1]
    ELSE [x \in DOMAIN idx \cup {v} |-> IF x = v THEN 1 ELSE idx[x]]

\* slip: the entry is dropped whatever its count
erase_one_index_no_count(idx, v) == [x \in DOMAIN idx \ {v} |-> idx[x]]

erase_one_index(idx, v) ==
    IF v \in DOMAIN idx
    THEN IF idx[v] - 1 = 0
         THEN [x \in DOMAIN idx \ {v} |-> idx[x]]
         ELSE [idx EXCEPT ![v] = @ - 1]
    ELSE idx

top_index(mode, idx) ==
    IF mode = "Add" THEN NoVal
    ELSE IF DOMAIN idx = {} THEN NoVal
    ELSE IF mode = "Min"
         THEN Some(CHOOSE v \in DOMAIN idx : \A w \in DOMAIN idx : v <= w)
         ELSE Some(CHOOSE v \in DOMAIN idx : \A w \in DOMAIN idx : v >= w)

\* if (have_old && old) erase_one_index(*old); if (have_new && new) insert_index(*new)
update_index(idx, old, new) ==
    LET a == IF old # NoVal THEN erase_one_index(idx, old[1]) ELSE idx
    IN IF new # NoVal THEN insert_index(a, new[1]) ELSE a

\* total_type{}: the value a Total takes when its count map is empty
Sentinel == 0

(***************************************************************************)
(* apply_pair: the new Totals and count maps, and what an observer of both *)
(* Total cells is notified with.  A write to a Total cell outside a batch  *)
(* notifies at once; the writes of one batchExecute notify once, at its    *)
(* end.                                                                    *)
(***************************************************************************)
\* total_ += d for the default; otherwise cur = total_.get();
\* changed = apply_(cur, d); if (changed) total_.value(cur)
apply_total1(total, d) ==
    IF apply_is_default_add(apply1_) THEN DefaultApplyAdd(total, d)
    ELSE IF ApplyFn(apply1_, total, d).changed THEN ApplyFn(apply1_, total, d).total
    ELSE total

apply_total2(total, d) ==
    IF apply_is_default_add(apply2_) THEN DefaultApplyAdd(total, d)
    ELSE IF ApplyFn(apply2_, total, d).changed THEN ApplyFn(apply2_, total, d).total
    ELSE total

\* the Total cell is written: always in Min/Max mode and by the default
\* addition, by another apply functor only when it returns true
total1_written(total, d) ==
    Total1Mode # "Add" \/ apply_is_default_add(apply1_) \/ ApplyFn(apply1_, total, d).changed

total2_written(total, d) ==
    Total2Mode # "Add" \/ apply_is_default_add(apply2_) \/ ApplyFn(apply2_, total, d).changed

apply_pair_separate(t1, t2, i1, i2, d1, d2, old1, new1, old2, new2) ==
    LET j1 == IF Total1Mode = "Add" THEN i1 ELSE update_index(i1, old1, new1)
        top1 == top_index(Total1Mode, j1)
        n1 == IF Total1Mode = "Add" THEN apply_total1(t1, d1)
              ELSE IF top1 # NoVal THEN top1[1] ELSE Sentinel
        j2 == IF Total2Mode = "Add" THEN i2 ELSE update_index(i2, old2, new2)
        top2 == top_index(Total2Mode, j2)
        n2 == IF Total2Mode = "Add" THEN apply_total2(t2, d2)
              ELSE IF top2 # NoVal THEN top2[1] ELSE Sentinel
    IN [total1 |-> n1, total2 |-> n2, idx1 |-> j1, idx2 |-> j2,
        notified |-> (IF total1_written(t1, d1) THEN << <<n1, t2>> >> ELSE <<>>)
                     \o (IF total2_written(t2, d2) THEN << <<n1, n2>> >> ELSE <<>>)]

\* slip: the combined path writes the two cells outside a batch
apply_pair_combined_unbatched(t1, t2, i1, i2, d1, d2, old1, new1, old2, new2) ==
    apply_pair_separate(t1, t2, i1, i2, d1, d2, old1, new1, old2, new2)

\* slip: in Min/Max mode the apply functor is run on the extreme as well
apply_pair_combined_applies_delta(t1, t2, i1, i2, d1, d2, old1, new1, old2, new2) ==
    LET j1 == IF Total1Mode # "Add" THEN update_index(i1, old1, new1) ELSE i1
        top1 == top_index(Total1Mode, j1)
        cur1 == ApplyFn(apply1_, IF Total1Mode = "Add" THEN t1
                                 ELSE IF top1 # NoVal THEN top1[1] ELSE Sentinel, d1).total
        j2 == IF Total2Mode # "Add" THEN update_index(i2, old2, new2) ELSE i2
        top2 == top_index(Total2Mode, j2)
        cur2 == ApplyFn(apply2_, IF Total2Mode = "Add" THEN t2
                                 ELSE IF top2 # NoVal THEN top2[1] ELSE Sentinel, d2).total
    IN [total1 |-> cur1, total2 |-> cur2, idx1 |-> j1, idx2 |-> j2,
        notified |-> << <<cur1, cur2>> >>]

apply_pair_combined(t1, t2, i1, i2, d1, d2, old1, new1, old2, new2) ==
    LET j1 == IF Total1Mode # "Add" THEN update_index(i1, old1, new1) ELSE i1
        top1 == top_index(Total1Mode, j1)
        cur1 == IF Total1Mode # "Add"
                THEN IF top1 # NoVal THEN top1[1] ELSE Sentinel
                ELSE IF apply_is_default_add(apply1_) THEN t1 + d1
                ELSE ApplyFn(apply1_, t1, d1).total
        changed1 == IF Total1Mode # "Add" THEN cur1 # t1
                    ELSE IF apply_is_default_add(apply1_) THEN TRUE
                    ELSE ApplyFn(apply1_, t1, d1).changed
        j2 == IF Total2Mode # "Add" THEN update_index(i2, old2, new2) ELSE i2
        top2 == top_index(Total2Mode, j2)
        cur2 == IF Total2Mode # "Add"
                THEN IF top2 # NoVal THEN top2[1] ELSE Sentinel
                ELSE IF apply_is_default_add(apply2_) THEN t2 + d2
                ELSE ApplyFn(apply2_, t2, d2).total
        changed2 == IF Total2Mode # "Add" THEN cur2 # t2
                    ELSE IF apply_is_default_add(apply2_) THEN TRUE
                    ELSE ApplyFn(apply2_, t2, d2).changed
    IN [total1 |-> IF changed1 THEN cur1 ELSE t1,
        total2 |-> IF changed2 THEN cur2 ELSE t2, idx1 |-> j1, idx2 |-> j2,
        notified |-> IF changed1 \/ changed2
                     THEN << <<IF changed1 THEN cur1 ELSE t1, IF changed2 THEN cur2 ELSE t2>> >>
                     ELSE <<>>]

apply_pair(t1, t2, i1, i2, d1, d2, old1, new1, old2, new2) ==
    IF ~combined_atomic_
    THEN apply_pair_separate(t1, t2, i1, i2, d1, d2, old1, new1, old2, new2)
    ELSE apply_pair_combined(t1, t2, i1, i2, d1, d2, old1, new1, old2, new2)

Ext1(mode, e1, e2) == IF mode # "Add" THEN Some(DefaultExtract1(e1, e2)) ELSE NoVal

Ext2(mode, e1, e2) == IF mode # "Add" THEN Some(DefaultExtract2(e1, e2)) ELSE NoVal

(***************************************************************************)
(* Element store helpers                                                   *)
(***************************************************************************)
Rec(e1, e2) == [lastElem1 |-> e1, lastElem2 |-> e2]

Snap(E, id) == <<E[id].lastElem1, E[id].lastElem2>>

Put(E, id, r) == [x \in DOMAIN E \cup {id} |-> IF x = id THEN r ELSE E[x]]

Drop(E, id) == [x \in DOMAIN E \ {id} |-> E[x]]

EmptyMap == [x \in {} |-> 0]

\* slip: the equivalence test is taken for its negation
need_reinsert_inverted(c, last1, last2, ne1, ne2) ==
    ~CompareFn(c, last1, last2, ne1, ne2) /\ ~CompareFn(c, ne1, ne2, last1, last2)

\* slip: need_reinsert is never cleared
need_reinsert_always(c, last1, last2, ne1, ne2) == TRUE

\* change callback: does the id have to leave and re-enter the ordered index?
\* equiv = !cmp_(last, new) && !cmp_(new, last); need_reinsert = !equiv
need_reinsert(c, last1, last2, ne1, ne2) ==
    ~(~CompareFn(c, last1, last2, ne1, ne2) /\ ~CompareFn(c, ne1, ne2, last1, last2))

(***************************************************************************)
(* top_k / bottom_k                                                        *)
(***************************************************************************)
RECURSIVE top_k_loop(_, _, _, _)
top_k_loop(s, i, out, k) ==
    IF i >= 1 /\ Len(out) < k
    THEN top_k_loop(s, i - 1, Append(out, s[i]), k)
    ELSE out

\* slip: the loop bound is out.size() <= k
RECURSIVE top_k_loop_off_by_one(_, _, _, _)
top_k_loop_off_by_one(s, i, out, k) ==
    IF i >= 1 /\ Len(out) <= k
    THEN top_k_loop_off_by_one(s, i - 1, Append(out, s[i]), k)
    ELSE out

top_k_one_more(k) ==
    IF ~MaintainOrderedIndex THEN <<>>
    ELSE top_k_loop_off_by_one(ordered_index_, Len(ordered_index_), <<>>, k)

top_k(k) ==
    IF ~MaintainOrderedIndex THEN <<>>
    ELSE top_k_loop(ordered_index_, Len(ordered_index_), <<>>, k)

RECURSIVE bottom_k_loop(_, _, _, _)
bottom_k_loop(s, i, out, k) ==
    IF i <= Len(s) /\ Len(out) < k
    THEN bottom_k_loop(s, i + 1, Append(out, s[i]), k)
    ELSE out

bottom_k(k) ==
    IF ~MaintainOrderedIndex THEN <<>>
    ELSE bottom_k_loop(ordered_index_, 1, <<>>, k)

(***************************************************************************)
(* The bodies of push_one, the change callback and erase: the values they  *)
(* leave in the members, and what they did on the way                      *)
(***************************************************************************)
\* push_one, after id = nextId_++ (emplace keeps an entry that already exists)
push_one(id, e1, e2) ==
    LET E == IF id \in DOMAIN elems_ THEN elems_ ELSE Put(elems_, id, Rec(e1, e2))
    IN [elems |-> E,
        ordered |-> IF MaintainOrderedIndex
                    THEN set_insert(index_cmp_, E, ordered_index_, id)
                    ELSE ordered_index_,
        ops |-> IF MaintainOrderedIndex THEN 1 ELSE 0,
        agg |-> apply_pair(total1_, total2_, idx1_, idx2_,
                           DeltaFn(delta1_, e1, e2, 0, 0), DeltaFn(delta2_, e1, e2, 0, 0),
                           NoVal, Ext1(Total1Mode, e1, e2),
                           NoVal, Ext2(Total2Mode, e1, e2)),
        monitors |-> monitors_ \cup {id}]

\* the change callback registered by push_one, run for element id with the
\* current values (new1, new2) of its two field cells
callback(id, new1, new2) ==
    IF id \notin DOMAIN elems_
    THEN [elems |-> elems_, ordered |-> ordered_index_, ops |-> 0,
          agg |-> [total1 |-> total1_, total2 |-> total2_, idx1 |-> idx1_,
                   idx2 |-> idx2_, notified |-> <<>>],
          monitors |-> monitors_]
    ELSE LET r0 == elems_[id]
             reins == need_reinsert(cmp_, r0.lastElem1, r0.lastElem2, new1, new2)
             erased == IF MaintainOrderedIndex /\ reins
                       THEN set_erase(index_cmp_, elems_, ordered_index_, id)
                       ELSE ordered_index_
             E == Put(elems_, id, Rec(new1, new2))
         IN [elems |-> E,
             ordered |-> IF MaintainOrderedIndex /\ reins
                         THEN set_insert(index_cmp_, E, erased, id)
                         ELSE erased,
             ops |-> IF MaintainOrderedIndex /\ reins THEN 2 ELSE 0,
             agg |-> apply_pair(total1_, total2_, idx1_, idx2_,
                                DeltaFn(delta1_, new1, new2, r0.lastElem1, r0.lastElem2),
                                DeltaFn(delta2_, new1, new2, r0.lastElem1, r0.lastElem2),
                                Ext1(Total1Mode, r0.lastElem1, r0.lastElem2),
                                Ext1(Total1Mode, new1, new2),
                                Ext2(Total2Mode, r0.lastElem1, r0.lastElem2),
                                Ext2(Total2Mode, new1, new2)),
             monitors |-> monitors_]

\* erase(id), after maybe_lock
erase(id) ==
    IF id \notin DOMAIN elems_
    THEN [elems |-> elems_, ordered |-> ordered_index_, ops |-> 0,
          agg |-> [total1 |-> total1_, total2 |-> total2_, idx1 |-> idx1_,
                   idx2 |-> idx2_, notified |-> <<>>],
          monitors |-> monitors_]
    ELSE LET r0 == elems_[id]
         IN [elems |-> Drop(elems_, id),
             ordered |-> IF MaintainOrderedIndex
                         THEN set_erase(index_cmp_, elems_, ordered_index_, id)
                         ELSE ordered_index_,
             ops |-> IF MaintainOrderedIndex THEN 1 ELSE 0,
             agg |-> apply_pair(total1_, total2_, idx1_, idx2_,
                                DeltaFn(delta1_, 0, 0, r0.lastElem1, r0.lastElem2),
                                DeltaFn(delta2_, 0, 0, r0.lastElem1, r0.lastElem2),
                                Ext1(Total1Mode, r0.lastElem1, r0.lastElem2), NoVal,
                                Ext2(Total2Mode, r0.lastElem1, r0.lastElem2), NoVal),
             monitors |-> monitors_ \ {id}]

\* the members take the values a body left
Commit(b) ==
    /\ elems_' = b.elems
    /\ ordered_index_' = b.ordered
    /\ total1_' = b.agg.total1 /\ total2_' = b.agg.total2
    /\ idx1_' = b.agg.idx1 /\ idx2_' = b.agg.idx2
    /\ monitors_' = b.monitors

(***************************************************************************)
(* Public calls made by one caller, each as one step                       *)
(***************************************************************************)
\* push_back(e1, e2)
PushBack(e1, e2) ==
    /\ nextId_ <= MaxId
    /\ LET b == push_one(nextId_, e1, e2)
       IN /\ Commit(b)
          /\ notified' = b.agg.notified /\ idx_ops' = b.ops
    /\ nextId_' = nextId_ + 1
    /\ ret' = <<nextId_>>
    /\ last' = Call("push_back", nextId_, Neutral)
    /\ UNCHANGED <<config, cmp_, index_cmp_, threads, rest>>

\* elem1Var(id).value(v): the cell changes and the callback runs synchronously
SetElem1(id, v) ==
    /\ id \in DOMAIN elems_ /\ id \in monitors_
    /\ v # elems_[id].lastElem1
    /\ LET b == callback(id, v, elems_[id].lastElem2)
       IN /\ Commit(b)
          /\ notified' = b.agg.notified /\ idx_ops' = b.ops
    /\ ret' = <<>>
    /\ last' = Call("update", id, Snap(elems_, id))
    /\ UNCHANGED <<config, cmp_, index_cmp_, nextId_, threads, rest>>

\* elem2Var(id).value(v)
SetElem2(id, v) ==
    /\ id \in DOMAIN elems_ /\ id \in monitors_
    /\ v # elems_[id].lastElem2
    /\ LET b == callback(id, elems_[id].lastElem1, v)
       IN /\ Commit(b)
          /\ notified' = b.agg.notified /\ idx_ops' = b.ops
    /\ ret' = <<>>
    /\ last' = Call("update", id, Snap(elems_, id))
    /\ UNCHANGED <<config, cmp_, index_cmp_, nextId_, threads, rest>>

\* erase(id)
Erase(id) ==
    /\ LET b == erase(id)
       IN /\ Commit(b)
          /\ notified' = b.agg.notified /\ idx_ops' = b.ops
    /\ ret' = <<>>
    /\ last' = Call("erase", id, IF id \in DOMAIN elems_ THEN Snap(elems_, id) ELSE Neutral)
    /\ UNCHANGED <<config, cmp_, index_cmp_, nextId_, threads, rest>>

\* set_compare(new_cmp)
SetCompare(c) ==
    /\ cmp_' = c
    /\ IF MaintainOrderedIndex
       THEN /\ ordered_index_' = NewSet(c, elems_)
            /\ index_cmp_' = c
       ELSE UNCHANGED <<ordered_index_, index_cmp_>>
    /\ notified' = <<>> /\ idx_ops' = 0 /\ ret' = <<>>
    /\ last' = Call("set_compare", 0, Neutral)
    /\ UNCHANGED <<config, elems_, monitors_, idx1_, idx2_, total1_, total2_,
                   nextId_, threads, rest>>

\* rebuild_ordered_index()
RebuildOrderedIndex ==
    /\ IF MaintainOrderedIndex
       THEN /\ ordered_index_' = NewSet(cmp_, elems_)
            /\ index_cmp_' = cmp_
       ELSE UNCHANGED <<ordered_index_, index_cmp_>>
    /\ notified' = <<>> /\ idx_ops' = 0 /\ ret' = <<>>
    /\ last' = Call("rebuild_ordered_index", 0, Neutral)
    /\ UNCHANGED <<config, cmp_, elems_, monitors_, idx1_, idx2_, total1_, total2_,
                   nextId_, threads, rest>>

\* top_k(k)
TopK(k) ==
    /\ ret' = top_k(k)
    /\ notified' = <<>> /\ idx_ops' = 0
    /\ last' = Call("top_k", k, Neutral)
    /\ UNCHANGED <<config, cmp_, data, threads, rest>>

\* bottom_k(k)
BottomK(k) ==
    /\ ret' = bottom_k(k)
    /\ notified' = <<>> /\ idx_ops' = 0
    /\ last' = Call("bottom_k", k, Neutral)
    /\ UNCHANGED <<config, cmp_, data, threads, rest>>

(***************************************************************************)
(* The collection after construction; specifications of one caller         *)
(***************************************************************************)
ConstructedSat(d1, a1, d2, a2, lo, hi) ==
    /\ delta1_ = d1 /\ apply1_ = a1 /\ delta2_ = d2 /\ apply2_ = a2
    /\ minv = lo /\ maxv = hi
    /\ cmp_ = "DefaultCompare"
    /\ elems_ = EmptyMap /\ monitors_ = {}
    /\ ordered_index_ = <<>> /\ index_cmp_ = "DefaultCompare"
    /\ idx1_ = EmptyMap /\ idx2_ = EmptyMap
    /\ total1_ = 0 /\ total2_ = 0
    /\ nextId_ = 1
    /\ key_ = EmptyMap /\ key_index_ = EmptyMap
    /\ issued = <<>> /\ erases = 0
    /\ notified = <<>> /\ idx_ops = 0 /\ ret = <<>> /\ last = NoCall

\* the apply functors default-constructed
ConstructedWith(d1, a1, d2, a2) == ConstructedSat(d1, a1, d2, a2, TMin, TMax)

\* the instantiation with the default functors
Constructed ==
    ConstructedWith("DefaultDelta1", "DefaultApplyAdd", "DefaultDelta2", "DefaultApplyAdd")

NoThreads ==
    /\ coarse_mtx_ = 0 /\ ordered_mtx_ = 0
    /\ combined_mtx_ = 0 /\ total1_mtx_ = 0 /\ total2_mtx_ = 0
    /\ pc = <<>> /\ loc = <<>> /\ todo = <<>> /\ got = <<>>

\* Aggregates: every pair of modes, with and without combined-atomic; the
\* ordered index is maintained under the default comparator.
Init ==
    /\ Total1Mode \in AggModes /\ Total2Mode \in AggModes
    /\ MaintainOrderedIndex = TRUE
    /\ combined_atomic_ \in BOOLEAN
    /\ coarse_lock_enabled_ = FALSE
    /\ Constructed
    /\ NoThreads
    /\ script = <<>>

Next ==
    \/ \E e1 \in Elem1Vals, e2 \in Elem2Vals : PushBack(e1, e2)
    \/ \E id \in Ids, v \in Elem1Vals : SetElem1(id, v)
    \/ \E id \in Ids, v \in Elem2Vals : SetElem2(id, v)
    \/ \E id \in Ids : Erase(id)

Spec == Init /\ [][Next]_vars

\* Ordered index: the comparator is replaced at run time and the index is
\* rebuilt and queried; the instantiations are the additive default and the
\* Min/Max one with combined-atomic Totals.
InitOrdered ==
    /\ \E i \in {<<"Add", "Add", FALSE>>, <<"Min", "Max", TRUE>>} :
           Total1Mode = i[1] /\ Total2Mode = i[2] /\ combined_atomic_ = i[3]
    /\ MaintainOrderedIndex = TRUE
    /\ coarse_lock_enabled_ = FALSE
    /\ Constructed
    /\ NoThreads
    /\ script = <<>>

NextOrdered ==
    \/ \E e1 \in Elem1Vals, e2 \in Elem2Vals : PushBack(e1, e2)
    \/ \E id \in Ids, v \in Elem1Vals : SetElem1(id, v)
    \/ \E id \in Ids, v \in Elem2Vals : SetElem2(id, v)
    \/ \E id \in Ids : Erase(id)
    \/ \E c \in Compares : SetCompare(c)
    \/ RebuildOrderedIndex
    \/ \E k \in 0..(MaxId + 1) : TopK(k)
    \/ \E k \in 0..(MaxId + 1) : BottomK(k)

SpecOrdered == InitOrdered /\ [][NextOrdered]_vars

(***************************************************************************)
(* The documented scenario: three push_back calls, then elem2Var(1) is     *)
(* written, then erase(1).  elem1 is held in tenths (1.5 is 15), so Total2 *)
(* is in tenths too.                                                       *)
(***************************************************************************)
ScenarioPairs == {<<15, 10>>, <<20, 20>>, <<5, 15>>}
ScenarioUpdates == {30, 25}

InitScenario ==
    /\ Total1Mode = "Add" /\ Total2Mode = "Add"
    /\ MaintainOrderedIndex \in BOOLEAN
    /\ combined_atomic_ \in BOOLEAN
    /\ coarse_lock_enabled_ = FALSE
    /\ Constructed
    /\ NoThreads
    /\ script \in [in : [1..3 -> ScenarioPairs], upd : ScenarioUpdates]

NextScenario ==
    \/ /\ nextId_ <= 3
       /\ PushBack(script.in[nextId_][1], script.in[nextId_][2])
    \/ /\ nextId_ = 4 /\ last.op = "push_back"
       /\ SetElem2(1, script.upd)
    \/ /\ last.op = "update"
       /\ Erase(1)

SpecScenario == InitScenario /\ [][NextScenario]_vars

(***************************************************************************)
(* Threads under the coarse lock: each pushes PerThread elements and then  *)
(* erases the first half of the ids it received (test_atomic_counters).    *)
(* A call is split where another thread could interleave if the lock were  *)
(* not held: nextId_++ is a read and a write.                              *)
(***************************************************************************)
NumThreads == 2
PerThread == 2
Threads == 1..NumThreads

\* slip: the lock is always constructed with std::defer_lock
maybe_lock_deferred == FALSE

\* maybe_lock(): does the returned unique_lock own coarse_mtx_?
maybe_lock == coarse_lock_enabled_

\* the unique_lock is taken at the start of a public call ...
Acquire(t) ==
    IF maybe_lock
    THEN coarse_mtx_ = 0 /\ coarse_mtx_' = t
    ELSE UNCHANGED coarse_mtx_

\* ... and released when the call returns
Release(t) == coarse_mtx_' = IF coarse_mtx_ = t THEN 0 ELSE coarse_mtx_

InitThreads ==
    /\ Total1Mode = "Add" /\ Total2Mode = "Add"
    /\ MaintainOrderedIndex \in BOOLEAN
    /\ combined_atomic_ = FALSE
    /\ coarse_lock_enabled_ = TRUE
    /\ Constructed
    /\ coarse_mtx_ = 0 /\ ordered_mtx_ = 0
    /\ combined_mtx_ = 0 /\ total1_mtx_ = 0 /\ total2_mtx_ = 0
    /\ pc = [t \in Threads |-> "idle"]
    /\ loc = [t \in Threads |-> 0]
    /\ todo = [t \in Threads |-> [push |-> PerThread, erase |-> PerThread \div 2]]
    /\ got = [t \in Threads |-> <<>>]
    /\ script = <<>>

\* push_back: auto lk = maybe_lock()
PushCall(t) ==
    /\ pc[t] = "idle" /\ todo[t].push > 0
    /\ Acquire(t)
    /\ pc' = [pc EXCEPT ![t] = "push_read"]
    /\ UNCHANGED <<config, cmp_, data, ghost, ordered_mtx_, fine, loc, todo, got, rest>>

\* push_one: id = nextId_ ...
PushRead(t) ==
    /\ pc[t] = "push_read"
    /\ loc' = [loc EXCEPT ![t] = nextId_]
    /\ pc' = [pc EXCEPT ![t] = "push_write"]
    /\ UNCHANGED <<config, cmp_, data, ghost, coarse_mtx_, ordered_mtx_, fine, todo, got, rest>>

\* ... nextId_ = id + 1
PushWrite(t) ==
    /\ pc[t] = "push_write"
    /\ nextId_' = loc[t] + 1
    /\ pc' = [pc EXCEPT ![t] = "push_store"]
    /\ UNCHANGED <<config, cmp_, elems_, monitors_, ordered_index_, index_cmp_, idx1_,
                   idx2_, total1_, total2_, ghost, coarse_mtx_, ordered_mtx_, fine, loc,
                   todo, got, rest>>

\* the rest of push_one, and the return of push_back (e1 = t, e2 = i as in
\* test_id_generation)
PushStore(t) ==
    /\ pc[t] = "push_store"
    /\ Commit(push_one(loc[t], t, Len(got[t])))
    /\ got' = [got EXCEPT ![t] = Append(@, loc[t])]
    /\ todo' = [todo EXCEPT ![t].push = @ - 1]
    /\ pc' = [pc EXCEPT ![t] = "idle"]
    /\ Release(t)
    /\ UNCHANGED <<config, cmp_, index_cmp_, nextId_, ghost, ordered_mtx_, fine, loc, rest>>

\* erase: auto lk = maybe_lock()
EraseCall(t) ==
    /\ pc[t] = "idle" /\ todo[t].push = 0 /\ todo[t].erase > 0
    /\ Acquire(t)
    /\ pc' = [pc EXCEPT ![t] = "erase_body"]
    /\ UNCHANGED <<config, cmp_, data, ghost, ordered_mtx_, fine, loc, todo, got, rest>>

\* the body of erase(ids[i]) and its return
EraseBody(t) ==
    /\ pc[t] = "erase_body"
    /\ Commit(erase(got[t][PerThread \div 2 - todo[t].erase + 1]))
    /\ todo' = [todo EXCEPT ![t].erase = @ - 1]
    /\ pc' = [pc EXCEPT ![t] = "idle"]
    /\ Release(t)
    /\ UNCHANGED <<config, cmp_, index_cmp_, nextId_, ghost, ordered_mtx_, fine, loc, got, rest>>

NextThreads ==
    \E t \in Threads :
        \/ PushCall(t)
        \/ PushRead(t)
        \/ PushWrite(t)
        \/ PushStore(t)
        \/ EraseCall(t)
        \/ EraseBody(t)

SpecThreads == InitThreads /\ [][NextThreads]_vars

(***************************************************************************)
(* set_compare on one thread while another thread is inside top_k.         *)
(* set_compare stores cmp_ (under the coarse lock when enabled), then      *)
(* under ordered_mtx_ builds new_set, swaps it with ordered_index_ and     *)
(* destroys the previous set.  top_k takes no lock: its iterator walks the *)
(* nodes of the set that was current when it started.  After the swap the  *)
(* end of that walk is no longer recognised, and after the destruction the *)
(* nodes are freed: what such a read yields is not determined.             *)
(***************************************************************************)
Iter(k, s) == [k |-> k, seq |-> s, pos |-> Len(s), out |-> <<>>, nodes |-> "live", seen |-> {s}]

\* what the swap does to an iterator in flight: an iterator at the end of an
\* empty set points into the set object itself and so now heads the new
\* tree; an iterator into nodes stays with the nodes, which new_set now owns
Swapped(it, new) ==
    IF it.seq = <<>>
    THEN [it EXCEPT !.seq = new, !.pos = Len(new), !.seen = @ \cup {new}]
    ELSE [it EXCEPT !.nodes = IF @ = "live" THEN "swapped" ELSE @,
                    !.seen = @ \cup {new}]

InitReaders ==
    /\ Total1Mode = "Add" /\ Total2Mode = "Add"
    /\ MaintainOrderedIndex = TRUE
    /\ combined_atomic_ = FALSE
    /\ coarse_lock_enabled_ \in BOOLEAN
    /\ Constructed
    /\ coarse_mtx_ = 0 /\ ordered_mtx_ = 0
    /\ combined_mtx_ = 0 /\ total1_mtx_ = 0 /\ total2_mtx_ = 0
    /\ pc = [writer |-> "idle", reader |-> "idle"]
    /\ loc = [writer |-> <<>>, reader |-> Iter(0, <<>>)]
    /\ todo = <<>> /\ got = <<>>
    /\ script = <<>>

\* push_back calls made while no other call is running; elem1 is held at 1,
\* which still leaves the three comparators three different orders
QuietPushBack ==
    /\ pc.writer = "idle" /\ pc.reader = "idle"
    /\ \E e2 \in Elem2Vals : PushBack(1, e2)

\* set_compare: cmp_ = compare_fn_t(new_cmp), inside the coarse lock if enabled
SetCompareStore(c) ==
    /\ pc.writer = "idle"
    /\ coarse_lock_enabled_ => coarse_mtx_ = 0
    /\ cmp_' = c
    /\ pc' = [pc EXCEPT !.writer = "build"]
    /\ UNCHANGED <<config, data, ghost, coarse_mtx_, ordered_mtx_, fine, loc, todo, got, rest>>

\* lock_guard g(ordered_mtx_); new_set built from elems_ under cmp_
SetCompareBuild ==
    /\ pc.writer = "build"
    /\ ordered_mtx_ = 0
    /\ ordered_mtx_' = 1
    /\ loc' = [loc EXCEPT !.writer = NewSet(cmp_, elems_)]
    /\ pc' = [pc EXCEPT !.writer = "swap"]
    /\ UNCHANGED <<config, cmp_, data, ghost, coarse_mtx_, fine, todo, got, rest>>

\* ordered_index_.swap(new_set)
SetCompareSwap ==
    /\ pc.writer = "swap"
    /\ ordered_index_' = loc.writer
    /\ index_cmp_' = cmp_
    /\ loc' = [loc EXCEPT !.writer = ordered_index_,
                          !.reader = IF pc.reader = "loop" THEN Swapped(@, loc.writer) ELSE @]
    /\ pc' = [pc EXCEPT !.writer = "destroy"]
    /\ UNCHANGED <<config, cmp_, elems_, monitors_, idx1_, idx2_, total1_, total2_,
                   nextId_, ghost, coarse_mtx_, ordered_mtx_, fine, todo, got, rest>>

\* new_set (the previous ordered_index_) destructs; g releases ordered_mtx_
SetCompareReturn ==
    /\ pc.writer = "destroy"
    /\ ordered_mtx_' = 0
    /\ loc' = [loc EXCEPT !.writer = <<>>,
                          !.reader.nodes = IF pc.reader = "loop" /\ @ = "swapped"
                                           THEN "freed" ELSE @]
    /\ pc' = [pc EXCEPT !.writer = "idle"]
    /\ notified' = <<>> /\ idx_ops' = 0 /\ ret' = <<>>
    /\ last' = Call("set_compare", 0, Neutral)
    /\ UNCHANGED <<config, cmp_, data, coarse_mtx_, fine, todo, got, rest>>

\* top_k(k): it = ordered_index_->rbegin()
TopKBegin(k) ==
    /\ pc.reader = "idle"
    /\ loc' = [loc EXCEPT !.reader = Iter(k, ordered_index_)]
    /\ pc' = [pc EXCEPT !.reader = "loop"]
    /\ UNCHANGED <<config, cmp_, data, ghost, coarse_mtx_, ordered_mtx_, fine, todo, got, rest>>

\* one evaluation of the loop condition, and either out.push_back(*it); ++it
\* or the return
TopKStep ==
    /\ pc.reader = "loop"
    /\ LET it == loc.reader
           more == CASE it.nodes = "live" -> {it.pos >= 1 /\ Len(it.out) < it.k}
                     [] it.nodes = "swapped" ->
                            IF it.pos >= 1 THEN {Len(it.out) < it.k}
                            ELSE {Len(it.out) < it.k, FALSE}
                     [] it.nodes = "freed" -> {Len(it.out) < it.k, FALSE}
           read == IF it.nodes = "freed" \/ it.pos < 1 THEN Ids ELSE {it.seq[it.pos]}
       IN \E go \in more :
              IF go
              THEN /\ \E x \in read :
                          loc' = [loc EXCEPT !.reader.out = Append(@, x),
                                                !.reader.pos = IF @ >= 1 THEN @ - 1 ELSE 0]
                   /\ UNCHANGED <<pc, ghost>>
              ELSE /\ pc' = [pc EXCEPT !.reader = "idle"]
                   /\ ret' = it.out
                   /\ last' = Call("top_k", it.k, Neutral)
                   /\ notified' = <<>> /\ idx_ops' = 0
                   /\ loc' = [loc EXCEPT !.reader = [Iter(0, <<>>) EXCEPT !.seen = it.seen]]
    /\ UNCHANGED <<config, cmp_, data, coarse_mtx_, ordered_mtx_, fine, todo, got, rest>>

NextReaders ==
    \/ QuietPushBack
    \/ \E c \in Compares : SetCompareStore(c)
    \/ SetCompareBuild
    \/ SetCompareSwap
    \/ SetCompareReturn
    \/ \E k \in 1..MaxId : TopKBegin(k)
    \/ TopKStep

SpecReaders == InitReaders /\ [][NextReaders]_vars

(***************************************************************************)
(* Coarse mode, several threads: the handle of lock_public(), push_back,   *)
(* and a field update made through the Var that elem2Var(id) returns.      *)
(* lock_public() and every maybe_lock() construct a unique_lock on the one *)
(* non-recursive coarse_mtx_.  elem2Var(id) holds its lock only until it   *)
(* has returned the reference; the write value(v) and the change callback  *)
(* it invokes run after that, on the writing thread.                       *)
(***************************************************************************)
InitCoarse ==
    /\ Total1Mode = "Add" /\ Total2Mode = "Add"
    /\ MaintainOrderedIndex \in BOOLEAN
    /\ combined_atomic_ = FALSE
    /\ coarse_lock_enabled_ = TRUE
    /\ Constructed
    /\ coarse_mtx_ = 0 /\ ordered_mtx_ = 0
    /\ combined_mtx_ = 0 /\ total1_mtx_ = 0 /\ total2_mtx_ = 0
    /\ pc = [t \in Threads |-> "idle"]
    /\ loc = [t \in Threads |-> 0]
    /\ todo = [t \in Threads |-> [push |-> 1, erase |-> 0, update |-> 1,
                                  lock_public |-> 1, handle |-> FALSE]]
    /\ got = [t \in Threads |-> <<>>]
    /\ script = <<>>

\* lk = lock_public(): the caller keeps the unique_lock
LockPublic(t) ==
    /\ pc[t] = "idle" /\ todo[t].lock_public > 0 /\ ~todo[t].handle
    /\ Acquire(t)
    /\ todo' = [todo EXCEPT ![t].lock_public = @ - 1, ![t].handle = TRUE]
    /\ UNCHANGED <<config, cmp_, data, ghost, ordered_mtx_, fine, pc, loc, got, rest>>

\* the handle goes out of scope
UnlockPublic(t) ==
    /\ pc[t] = "idle" /\ todo[t].handle
    /\ Release(t)
    /\ todo' = [todo EXCEPT ![t].handle = FALSE]
    /\ UNCHANGED <<config, cmp_, data, ghost, ordered_mtx_, fine, pc, loc, got, rest>>

\* push_back by a thread that owns coarse_mtx_ already, on a build whose
\* mutex detects it (locking an owned std::mutex is undefined: the thread
\* blocks, which is PushCall never being enabled, or std::system_error is
\* thrown): the call ends without an element
PushCallThrows(t) ==
    /\ pc[t] = "idle" /\ todo[t].push > 0
    /\ maybe_lock /\ coarse_mtx_ = t
    /\ todo' = [todo EXCEPT ![t].push = @ - 1]
    /\ UNCHANGED <<config, cmp_, data, ghost, coarse_mtx_, ordered_mtx_, fine, pc, loc, got, rest>>

\* elem2Var(id).value(v): elem2Var locks, takes elems_.at(id).elem2Var and
\* unlocks on return; value(v) then stores v in the cell, which calls the
\* change callback
ElemVarWrite(t, id, v) ==
    /\ pc[t] = "idle" /\ todo[t].update > 0
    /\ maybe_lock => coarse_mtx_ = 0
    /\ id \in DOMAIN elems_ /\ id \in monitors_
    /\ v # elems_[id].lastElem2
    /\ pc' = [pc EXCEPT ![t] = "callback"]
    /\ loc' = [loc EXCEPT ![t] = <<id, v>>]
    /\ UNCHANGED <<config, cmp_, data, ghost, coarse_mtx_, ordered_mtx_, fine, todo, got, rest>>

\* the change callback, to its end
ChangeCallback(t) ==
    /\ pc[t] = "callback"
    /\ LET id == loc[t][1]
           b == callback(id, IF id \in DOMAIN elems_ THEN elems_[id].lastElem1 ELSE 0,
                         loc[t][2])
       IN Commit(b)
    /\ pc' = [pc EXCEPT ![t] = "idle"]
    /\ loc' = [loc EXCEPT ![t] = 0]
    /\ todo' = [todo EXCEPT ![t].update = @ - 1]
    /\ UNCHANGED <<config, cmp_, index_cmp_, nextId_, ghost, coarse_mtx_, ordered_mtx_, fine,
                   got, rest>>

NextCoarse ==
    \E t \in Threads :
        \/ LockPublic(t)
        \/ UnlockPublic(t)
        \/ PushCall(t)
        \/ PushCallThrows(t)
        \/ PushRead(t)
        \/ PushWrite(t)
        \/ PushStore(t)
        \/ \E id \in Ids, v \in Elem2Vals : ElemVarWrite(t, id, v)
        \/ ChangeCallback(t)

SpecCoarse == InitCoarse /\ [][NextCoarse]_vars

(***************************************************************************)
(* Fine-grained mode, combined-atomic off, Total1 in Min and Total2 in Max *)
(* mode: two threads in push_back.  No lock is taken anywhere on this path *)
(* except ordered_mtx_ around the ordered insert; the statements of        *)
(* apply_pair are steps of their own.                                      *)
(***************************************************************************)
InitFine ==
    /\ Total1Mode = "Min" /\ Total2Mode = "Max"
    /\ MaintainOrderedIndex \in BOOLEAN
    /\ combined_atomic_ = FALSE
    /\ coarse_lock_enabled_ = FALSE
    /\ Constructed
    /\ coarse_mtx_ = 0 /\ ordered_mtx_ = 0
    /\ combined_mtx_ = 0 /\ total1_mtx_ = 0 /\ total2_mtx_ = 0
    /\ pc = [t \in Threads |-> "idle"]
    /\ loc = [t \in Threads |-> 0]
    /\ todo = [t \in Threads |-> [push |-> 1, erase |-> 0]]
    /\ got = [t \in Threads |-> <<>>]
    /\ script = <<>>

\* thread t pushes (1, t)
FineElem2(t) == t

\* push_one up to the ordered insert: elems_.emplace(id, rec) and, under
\* ordered_mtx_, ordered_index_->insert(id)
FineEmplace(t) ==
    /\ pc[t] = "push_store"
    /\ ordered_mtx_ = 0
    /\ LET id == loc[t]
           E == IF id \in DOMAIN elems_ THEN elems_ ELSE Put(elems_, id, Rec(1, FineElem2(t)))
       IN /\ elems_' = E
          /\ ordered_index_' = IF MaintainOrderedIndex /\ id \notin DOMAIN elems_
                               THEN set_insert(index_cmp_, E, ordered_index_, id)
                               ELSE ordered_index_
    /\ pc' = [pc EXCEPT ![t] = "insert_index1"]
    /\ UNCHANGED <<config, cmp_, monitors_, index_cmp_, idx1_, idx2_, total1_, total2_,
                   nextId_, ghost, coarse_mtx_, ordered_mtx_, fine, loc, todo, got, rest>>

\* apply_pair: insert_index1(*new1)
FineInsertIndex1(t) ==
    /\ pc[t] = "insert_index1"
    /\ idx1_' = insert_index(idx1_, DefaultExtract1(1, FineElem2(t)))
    /\ pc' = [pc EXCEPT ![t] = "top_index1"]
    /\ UNCHANGED <<config, cmp_, elems_, monitors_, ordered_index_, index_cmp_, idx2_,
                   total1_, total2_, nextId_, ghost, coarse_mtx_, ordered_mtx_, fine, loc,
                   todo, got, rest>>

\* auto top1 = top_index1()
FineTopIndex1(t) ==
    /\ pc[t] = "top_index1"
    /\ loc' = [loc EXCEPT ![t] = <<loc[t], top_index(Total1Mode, idx1_)>>]
    /\ pc' = [pc EXCEPT ![t] = "total1_value"]
    /\ UNCHANGED <<config, cmp_, data, ghost, coarse_mtx_, ordered_mtx_, fine, todo, got, rest>>

\* total1_.value(*top1), or total1_.value(total1_type{})
FineTotal1Value(t) ==
    /\ pc[t] = "total1_value"
    /\ total1_' = IF loc[t][2] # NoVal THEN loc[t][2][1] ELSE Sentinel
    /\ loc' = [loc EXCEPT ![t] = loc[t][1]]
    /\ pc' = [pc EXCEPT ![t] = "insert_index2"]
    /\ UNCHANGED <<config, cmp_, elems_, monitors_, ordered_index_, index_cmp_, idx1_,
                   idx2_, total2_, nextId_, ghost, coarse_mtx_, ordered_mtx_, fine, todo,
                   got, rest>>

\* insert_index2(*new2)
FineInsertIndex2(t) ==
    /\ pc[t] = "insert_index2"
    /\ idx2_' = insert_index(idx2_, DefaultExtract2(1, FineElem2(t)))
    /\ pc' = [pc EXCEPT ![t] = "top_index2"]
    /\ UNCHANGED <<config, cmp_, elems_, monitors_, ordered_index_, index_cmp_, idx1_,
                   total1_, total2_, nextId_, ghost, coarse_mtx_, ordered_mtx_, fine, loc,
                   todo, got, rest>>

\* auto top2 = top_index2()
FineTopIndex2(t) ==
    /\ pc[t] = "top_index2"
    /\ loc' = [loc EXCEPT ![t] = <<loc[t], top_index(Total2Mode, idx2_)>>]
    /\ pc' = [pc EXCEPT ![t] = "total2_value"]
    /\ UNCHANGED <<config, cmp_, data, ghost, coarse_mtx_, ordered_mtx_, fine, todo, got, rest>>

\* total2_.value(*top2), then monitors_.emplace and the return of push_back
FineTotal2Value(t) ==
    /\ pc[t] = "total2_value"
    /\ total2_' = IF loc[t][2] # NoVal THEN loc[t][2][1] ELSE Sentinel
    /\ monitors_' = monitors_ \cup {loc[t][1]}
    /\ got' = [got EXCEPT ![t] = Append(@, loc[t][1])]
    /\ todo' = [todo EXCEPT ![t].push = @ - 1]
    /\ loc' = [loc EXCEPT ![t] = 0]
    /\ pc' = [pc EXCEPT ![t] = "idle"]
    /\ UNCHANGED <<config, cmp_, elems_, ordered_index_, index_cmp_, idx1_, idx2_,
                   total1_, nextId_, ghost, coarse_mtx_, ordered_mtx_, fine, rest>>

NextFine ==
    \E t \in Threads :
        \/ PushCall(t)
        \/ PushRead(t)
        \/ PushWrite(t)
        \/ FineEmplace(t)
        \/ FineInsertIndex1(t)
        \/ FineTopIndex1(t)
        \/ FineTotal1Value(t)
        \/ FineInsertIndex2(t)
        \/ FineTopIndex2(t)
        \/ FineTotal2Value(t)

SpecFine == InitFine /\ [][NextFine]_vars

(***************************************************************************)
(* Keyed instantiation (KeyT not void), one caller.  Every element carries *)
(* a key; push_back(e1, e2) without a key and a batch entry past the end   *)
(* of the key vector carry key_storage_t{}.  erase_by_key is taken in its  *)
(* two lock acquisitions.  clear() is the one of the header variant that   *)
(* has it (src/reactive_two_field_collection.h), which has no ordered      *)
(* index.                                                                  *)
(***************************************************************************)
Keys == {"a", "b"}
DefaultKey == ""
AllKeys == Keys \cup {DefaultKey}
BatchVals == {<<1, 1>>, <<1, 2>>}

\* key_index_.emplace(key, id): an entry that exists is kept
emplace_key(K, k, id) == IF k \in DOMAIN K THEN K ELSE Put(K, k, id)

\* find_by_key(k)
find_by_key(k) == IF k \in DOMAIN key_index_ THEN Some(key_index_[k]) ELSE NoVal

\* slip: size() answers with the number of ids handed out
size_of_issued == nextId_ - 1

\* size()
size == Cardinality(DOMAIN elems_)

\* empty()
empty == DOMAIN elems_ = {}

\* the members, as the value a body works on; writes collects the Total
\* notifications, ops the ordered_index_ calls
Members ==
    [elems |-> elems_, ordered |-> ordered_index_, total1 |-> total1_,
     total2 |-> total2_, idx1 |-> idx1_, idx2 |-> idx2_, monitors |-> monitors_,
     nextId |-> nextId_, key |-> key_, key_index |-> key_index_,
     issued |-> issued, writes |-> <<>>, ops |-> 0]

\* slip: id = ++nextId_
take_id_preincrement(n) == [id |-> n + 1, next |-> n + 1]

\* id = nextId_++
take_id(n) == [id |-> n, next |-> n + 1]

\* push_one_no_batch -> push_one(e1, e2, key) on the members S
push_one_no_batch(S, e1, e2, k) ==
    LET id == take_id(S.nextId).id
        fresh == id \notin DOMAIN S.elems
        E == IF fresh THEN Put(S.elems, id, Rec(e1, e2)) ELSE S.elems
        Ky == IF fresh THEN Put(S.key, id, k) ELSE S.key
        agg == apply_pair(S.total1, S.total2, S.idx1, S.idx2,
                          DeltaFn(delta1_, e1, e2, 0, 0), DeltaFn(delta2_, e1, e2, 0, 0),
                          NoVal, Ext1(Total1Mode, e1, e2),
                          NoVal, Ext2(Total2Mode, e1, e2))
    IN [S EXCEPT !.nextId = take_id(@).next,
                 !.issued = Append(@, id),
                 !.elems = E,
                 !.key = Ky,
                 !.key_index = emplace_key(@, Ky[id], id),
                 !.ordered = IF MaintainOrderedIndex
                             THEN set_insert(index_cmp_, E, @, id) ELSE @,
                 !.ops = IF MaintainOrderedIndex THEN @ + 1 ELSE @,
                 !.total1 = agg.total1, !.total2 = agg.total2,
                 !.idx1 = agg.idx1, !.idx2 = agg.idx2,
                 !.writes = @ \o agg.notified,
                 !.monitors = @ \cup {id}]

\* slip: the last key of the key vector is not handed on (i < keys->size() - 1)
RECURSIVE push_batch_last_key_dropped(_, _, _, _)
push_batch_last_key_dropped(S, vals, keys, i) ==
    IF i > Len(vals) THEN S
    ELSE push_batch_last_key_dropped(
             push_one_no_batch(S, vals[i][1], vals[i][2],
                               IF i < Len(keys) THEN keys[i] ELSE DefaultKey),
             vals, keys, i + 1)

\* the loop of the batch push_back: entry i takes keys[i] if there is one
RECURSIVE push_batch(_, _, _, _)
push_batch(S, vals, keys, i) ==
    IF i > Len(vals) THEN S
    ELSE push_batch(push_one_no_batch(S, vals[i][1], vals[i][2],
                                      IF i <= Len(keys) THEN keys[i] ELSE DefaultKey),
                    vals, keys, i + 1)

\* the members take the values of S
CommitMembers(S) ==
    /\ elems_' = S.elems /\ ordered_index_' = S.ordered
    /\ total1_' = S.total1 /\ total2_' = S.total2
    /\ idx1_' = S.idx1 /\ idx2_' = S.idx2
    /\ monitors_' = S.monitors /\ nextId_' = S.nextId
    /\ key_' = S.key /\ key_index_' = S.key_index
    /\ issued' = S.issued
    /\ idx_ops' = S.ops

\* no call of the caller is in progress
Returned == pc = <<>>

\* push_back(e1, e2, key), and push_back(e1, e2) for key = key_storage_t{}
KeyedPushBack(e1, e2, k) ==
    /\ Returned
    /\ nextId_ <= MaxId
    /\ LET S == push_one_no_batch(Members, e1, e2, k)
       IN /\ CommitMembers(S)
          /\ notified' = S.writes
    /\ ret' = <<nextId_>>
    /\ last' = Call("push_back", nextId_, Neutral)
    /\ UNCHANGED <<config, cmp_, index_cmp_, threads, script, erases>>

\* push_back(vals, keys): nothing for an empty vals; otherwise every push_one
\* inside one batchExecute, whose Total writes are notified once at its end
KeyedPushBatch(vals, keys) ==
    /\ Returned
    /\ nextId_ + Len(vals) - 1 <= MaxId
    /\ LET S == push_batch(Members, vals, keys, 1)
       IN /\ CommitMembers(S)
          /\ notified' = IF S.writes = <<>> THEN <<>> ELSE << <<S.total1, S.total2>> >>
    /\ ret' = <<>>
    /\ last' = Call("push_batch", Len(vals), Neutral)
    /\ UNCHANGED <<config, cmp_, index_cmp_, threads, script, erases>>

\* slip: the record is taken with elems_[id], which gives an absent id a
\* default record, and that record's key is erased from the key index
erase_keyed_default_record(id) ==
    [key |-> Drop(key_, id),
     key_index |-> Drop(key_index_, IF id \in DOMAIN elems_ THEN key_[id] ELSE DefaultKey),
     erases |-> IF id \in DOMAIN elems_ THEN erases + 1 ELSE erases]

\* key_index_.erase(rec.key) and the rest of erase(id)
erase_keyed(id) ==
    [key |-> IF id \in DOMAIN elems_ THEN Drop(key_, id) ELSE key_,
     key_index |-> IF id \in DOMAIN elems_ THEN Drop(key_index_, key_[id]) ELSE key_index_,
     erases |-> IF id \in DOMAIN elems_ THEN erases + 1 ELSE erases]

\* erase(id), for any id
KeyedErase(id) ==
    /\ Returned
    /\ LET b == erase(id)
       IN /\ Commit(b)
          /\ notified' = b.agg.notified /\ idx_ops' = b.ops
    /\ key_' = erase_keyed(id).key
    /\ key_index_' = erase_keyed(id).key_index
    /\ erases' = erase_keyed(id).erases
    /\ ret' = <<>>
    /\ last' = Call("erase", id, IF id \in DOMAIN elems_ THEN Snap(elems_, id) ELSE Neutral)
    /\ UNCHANGED <<config, cmp_, index_cmp_, nextId_, threads, script, issued>>

\* erase_by_key(k): lk = maybe_lock(); it = key_index_.find(k); return if
\* absent.  Otherwise the call goes on to erase(it->second) with lk held.
EraseByKeyCall(k) ==
    /\ Returned
    /\ coarse_mtx_ = 0
    /\ IF k \notin DOMAIN key_index_
       THEN /\ last' = Call("erase_by_key", <<k, 0>>, Neutral)
            /\ UNCHANGED <<pc, coarse_mtx_>>
       ELSE /\ pc' = <<[op |-> "erase_by_key", key |-> k, id |-> key_index_[k]]>>
            /\ coarse_mtx_' = IF maybe_lock THEN 1 ELSE 0
            /\ last' = Call("erase_by_key", <<k, key_index_[k]>>,
                            IF key_index_[k] \in DOMAIN elems_
                            THEN Snap(elems_, key_index_[k]) ELSE Neutral)
    /\ notified' = <<>> /\ idx_ops' = 0 /\ ret' = <<>>
    /\ UNCHANGED <<config, cmp_, data, ordered_mtx_, fine, loc, todo, got, rest>>

\* erase(it->second) called by erase_by_key: its own lk = maybe_lock() needs
\* coarse_mtx_ free; then the body of erase, and both calls return
EraseByKeyErase ==
    /\ ~Returned
    /\ maybe_lock => coarse_mtx_ = 0
    /\ LET id == pc[1].id
           b == erase(id)
       IN /\ Commit(b)
          /\ notified' = b.agg.notified /\ idx_ops' = b.ops
          /\ key_' = erase_keyed(id).key
          /\ key_index_' = erase_keyed(id).key_index
          /\ erases' = erase_keyed(id).erases
    /\ pc' = <<>>
    /\ coarse_mtx_' = 0
    /\ UNCHANGED <<config, cmp_, index_cmp_, nextId_, ret, last, ordered_mtx_, fine, loc,
                   todo, got, script, issued>>

\* the same second acquisition on a build whose mutex detects that the caller
\* already owns it (locking an owned std::mutex is undefined; it blocks or
\* throws std::system_error): the exception leaves erase_by_key, lk unlocks
EraseByKeyThrows ==
    /\ ~Returned
    /\ maybe_lock /\ coarse_mtx_ = 1
    /\ pc' = <<>>
    /\ coarse_mtx_' = 0
    /\ ret' = <<"system_error">>
    /\ UNCHANGED <<config, cmp_, data, notified, idx_ops, last, ordered_mtx_, fine, loc,
                   todo, got, rest>>

\* find_by_key(k)
FindByKey(k) ==
    /\ Returned
    /\ ret' = find_by_key(k)
    /\ notified' = <<>> /\ idx_ops' = 0
    /\ last' = Call("find_by_key", k, Neutral)
    /\ UNCHANGED <<config, cmp_, data, threads, rest>>

\* slip: the removal deltas are not summed (sumRem stays delta_type{})
sumRem_zero(E, S, second) == 0

\* the sum of the removal deltas clear() takes over elems_
RECURSIVE sumRem(_, _, _)
sumRem(E, S, second) ==
    IF S = {} THEN 0
    ELSE LET x == CHOOSE y \in S : TRUE
         IN (IF second THEN DeltaFn(delta2_, 0, 0, E[x].lastElem1, E[x].lastElem2)
                       ELSE DeltaFn(delta1_, 0, 0, E[x].lastElem1, E[x].lastElem2))
            + sumRem(E, S \ {x}, second)

\* clear(): nothing on an empty collection; otherwise one apply_pair with the
\* summed deltas and no extractor values, then the monitors are closed and
\* the three maps cleared
Clear ==
    /\ Returned
    /\ ~MaintainOrderedIndex
    /\ IF DOMAIN elems_ = {}
       THEN /\ UNCHANGED <<data, keyed>>
            /\ notified' = <<>>
       ELSE LET agg == apply_pair(total1_, total2_, idx1_, idx2_,
                                  sumRem(elems_, DOMAIN elems_, FALSE),
                                  sumRem(elems_, DOMAIN elems_, TRUE),
                                  NoVal, NoVal, NoVal, NoVal)
            IN /\ total1_' = agg.total1 /\ total2_' = agg.total2
               /\ idx1_' = agg.idx1 /\ idx2_' = agg.idx2
               /\ notified' = agg.notified
               /\ monitors_' = {} /\ elems_' = EmptyMap
               /\ key_' = EmptyMap /\ key_index_' = EmptyMap
               /\ UNCHANGED <<ordered_index_, index_cmp_, nextId_>>
    /\ idx_ops' = 0 /\ ret' = <<>>
    /\ last' = Call("clear", 0, Neutral)
    /\ UNCHANGED <<config, cmp_, threads, script, issued, erases>>

\* the additive default with the ordered index, and Min/Max without it; each
\* with the coarse lock on and off
InitKeyed ==
    /\ \E i \in {<<"Add", "Add", TRUE>>, <<"Min", "Max", FALSE>>} :
           Total1Mode = i[1] /\ Total2Mode = i[2] /\ MaintainOrderedIndex = i[3]
    /\ combined_atomic_ = FALSE
    /\ coarse_lock_enabled_ \in BOOLEAN
    /\ Constructed
    /\ NoThreads
    /\ script = <<>>

NextKeyed ==
    \/ \E e2 \in Elem2Vals, k \in AllKeys : KeyedPushBack(1, e2, k)
    \/ \E n \in 0..2, m \in 0..1 :
           \E vals \in [1..n -> BatchVals], keys \in [1..m -> Keys] :
               KeyedPushBatch(vals, keys)
    \/ \E id \in 1..(MaxId + 1) : KeyedErase(id)
    \/ \E k \in AllKeys : EraseByKeyCall(k)
    \/ EraseByKeyErase
    \/ EraseByKeyThrows
    \/ \E k \in AllKeys : FindByKey(k)
    \/ Clear

SpecKeyed == InitKeyed /\ [][NextKeyed]_vars

(***************************************************************************)
(* Bulk calls of one caller: the batch push_back and clear(), next to the  *)
(* single push_back and erase they are measured against.  clear() exists   *)
(* in the header variant without ordered index only, so it is called in    *)
(* the configurations that have none.                                      *)
(***************************************************************************)
\* erase(id) on the members S
erase_one(S, id) ==
    IF id \notin DOMAIN S.elems THEN S
    ELSE LET r0 == S.elems[id]
             agg == apply_pair(S.total1, S.total2, S.idx1, S.idx2,
                               DeltaFn(delta1_, 0, 0, r0.lastElem1, r0.lastElem2),
                               DeltaFn(delta2_, 0, 0, r0.lastElem1, r0.lastElem2),
                               Ext1(Total1Mode, r0.lastElem1, r0.lastElem2), NoVal,
                               Ext2(Total2Mode, r0.lastElem1, r0.lastElem2), NoVal)
         IN [S EXCEPT !.ordered = IF MaintainOrderedIndex
                                  THEN set_erase(index_cmp_, S.elems, @, id) ELSE @,
                      !.ops = IF MaintainOrderedIndex THEN @ + 1 ELSE @,
                      !.total1 = agg.total1, !.total2 = agg.total2,
                      !.idx1 = agg.idx1, !.idx2 = agg.idx2,
                      !.writes = @ \o agg.notified,
                      !.key_index = Drop(@, S.key[id]),
                      !.key = Drop(@, id),
                      !.monitors = @ \ {id},
                      !.elems = Drop(@, id)]

\* erase(id) for every id of ids, smallest first
RECURSIVE erase_each(_, _)
erase_each(S, ids) ==
    IF ids = {} THEN S
    ELSE LET id == CHOOSE x \in ids : \A y \in ids : x <= y
         IN erase_each(erase_one(S, id), ids \ {id})

\* push_back(e1, e2, key) for every entry of vals, first to last; an entry
\* without a key is pushed with push_back(e1, e2)
RECURSIVE push_each(_, _, _)
push_each(S, vals, keys) ==
    IF vals = <<>> THEN S
    ELSE push_each(push_one_no_batch(S, Head(vals)[1], Head(vals)[2],
                                     IF keys # <<>> THEN Head(keys) ELSE DefaultKey),
                   Tail(vals), IF keys # <<>> THEN Tail(keys) ELSE <<>>)

\* the keys of a batch; the single push_back calls use "b" and no key
BatchKeys == {"a"}

InitBulk ==
    /\ \E i \in {<<"Add", "Add", FALSE>>, <<"Min", "Max", FALSE>>, <<"Add", "Add", TRUE>>} :
           Total1Mode = i[1] /\ Total2Mode = i[2] /\ MaintainOrderedIndex = i[3]
    /\ combined_atomic_ \in BOOLEAN
    /\ coarse_lock_enabled_ = FALSE
    /\ Constructed
    /\ NoThreads
    /\ script = <<>>

NextBulk ==
    \/ \E e2 \in Elem2Vals, k \in {"b", DefaultKey} : KeyedPushBack(1, e2, k)
    \/ \E n \in 0..2, m \in 0..2 :
           \E vals \in [1..n -> BatchVals], keys \in [1..m -> BatchKeys] :
               KeyedPushBatch(vals, keys)
    \/ \E id \in Ids : KeyedErase(id)
    \/ Clear

SpecBulk == InitBulk /\ [][NextBulk]_vars

(***************************************************************************)
(* The Var accessors of one caller.  elem1Var(id) and elem2Var(id) take    *)
(* the record with elems_.at(id): a reference to the cell of a live id,    *)
(* std::out_of_range for any other id.  The exception leaves the accessor, *)
(* its lock is released by the unwinding, and no member has been written.  *)
(***************************************************************************)
\* elems_.at(id): the record, or the exception
at(E, id) == IF id \in DOMAIN E THEN <<"ref", id>> ELSE <<"out_of_range">>

\* elem1Var(id) for second = FALSE, elem2Var(id) for second = TRUE
ElemVar(second, id) ==
    /\ Returned
    /\ maybe_lock => coarse_mtx_ = 0
    /\ ret' = at(elems_, id)
    /\ last' = Call(IF second THEN "elem2Var" ELSE "elem1Var", id, Neutral)
    /\ notified' = <<>> /\ idx_ops' = 0
    /\ UNCHANGED <<config, cmp_, data, threads, rest>>

InitLookup ==
    /\ Total1Mode = "Add" /\ Total2Mode = "Add"
    /\ MaintainOrderedIndex \in BOOLEAN
    /\ combined_atomic_ = FALSE
    /\ coarse_lock_enabled_ \in BOOLEAN
    /\ Constructed
    /\ NoThreads
    /\ script = <<>>

NextLookup ==
    \/ \E e2 \in Elem2Vals : KeyedPushBack(1, e2, DefaultKey)
    \/ \E id \in Ids : KeyedErase(id)
    \/ \E second \in BOOLEAN, id \in 1..(MaxId + 1) : ElemVar(second, id)

SpecLookup == InitLookup /\ [][NextLookup]_vars

(***************************************************************************)
(* Instantiations with other delta and apply functors, one caller.  The    *)
(* functors of Total1 range over the ones the repository defines and       *)
(* uses: DefaultDelta1, NoopDelta, ReturnNewElem2 with DefaultApplyAdd,    *)
(* NoopApply, SetApply, Total1 being additive or Min; Total2 is additive   *)
(* with its defaults, or Max with NoopDelta / NoopApply.  CollIndexOnly    *)
(* and CollSet of the demo are two of them.  ReturnNewElem2 is not paired with         *)
(* DefaultApplyAdd: that Total would grow by the new elem2 on every call.  *)
(***************************************************************************)
Total1Instances ==
    ({"DefaultDelta1", "NoopDelta", "ReturnNewElem2"} \X ApplyFns)
        \ {<<"ReturnNewElem2", "DefaultApplyAdd">>}

Total2Instances ==
    {<<"Add", "DefaultDelta2", "DefaultApplyAdd">>,
     <<"Max", "NoopDelta", "NoopApply">>}

InitFunctors ==
    /\ Total1Mode \in {"Add", "Min"}
    /\ \E f \in Total1Instances, i \in Total2Instances :
           /\ Total2Mode = i[1]
           /\ ConstructedWith(f[1], f[2], i[2], i[3])
    /\ MaintainOrderedIndex = FALSE
    /\ combined_atomic_ \in BOOLEAN
    /\ coarse_lock_enabled_ = FALSE
    /\ NoThreads
    /\ script = <<>>

NextFunctors ==
    \/ \E e1 \in Elem1Vals, e2 \in Elem2Vals : PushBack(e1, e2)
    \/ \E id \in Ids, v \in Elem1Vals : SetElem1(id, v)
    \/ \E id \in Ids, v \in Elem2Vals : SetElem2(id, v)
    \/ \E id \in Ids : Erase(id)

SpecFunctors == InitFunctors /\ [][NextFunctors]_vars

(***************************************************************************)
(* The apply functors on their own: Total1 is additive, apply1_ is any of  *)
(* the functors provided and TotalT is Width bits wide.  The calls are     *)
(* apply1_(cur, d) on a copy of the Total and apply_total1(d); ret holds   *)
(* the locals cur and changed after the call.                              *)
(***************************************************************************)
SatBounds == {<<TMin, TMax>>, <<-2, 3>>}

\* bool changed = apply1_(cur, d), with cur = total1_.get()
CallApply(d) ==
    /\ \E r \in ApplyOutcomes(apply1_, total1_, d) : ret' = <<r.total, r.changed>>
    /\ notified' = <<>> /\ idx_ops' = 0
    /\ last' = Call("apply", d, <<total1_, total2_>>)
    /\ UNCHANGED <<config, cmp_, data, threads, rest>>

\* apply_total1(d)
ApplyTotal1(d) ==
    /\ IF apply_is_default_add(apply1_)
       THEN \E v \in Add(total1_, d) :
              /\ total1_' = v
              /\ notified' = << <<v, total2_>> >>
              /\ ret' = <<>>
       ELSE \E r \in ApplyOutcomes(apply1_, total1_, d) :
              /\ total1_' = IF r.changed THEN r.total ELSE total1_
              /\ notified' = IF r.changed THEN << <<r.total, total2_>> >> ELSE <<>>
              /\ ret' = <<r.total, r.changed>>
    /\ idx_ops' = 0
    /\ last' = Call("apply_total1", d, <<total1_, total2_>>)
    /\ UNCHANGED <<config, cmp_, elems_, monitors_, ordered_index_, index_cmp_,
                   idx1_, idx2_, total2_, nextId_, threads, rest>>

InitApply ==
    /\ Total1Mode = "Add" /\ Total2Mode = "Add"
    /\ MaintainOrderedIndex = FALSE
    /\ combined_atomic_ = FALSE
    /\ coarse_lock_enabled_ = FALSE
    /\ \E a \in ApplyStrategies, b \in SatBounds :
         ConstructedSat("DefaultDelta1", a, "DefaultDelta2", "DefaultApplyAdd", b[1], b[2])
    /\ NoThreads
    /\ script = <<>>

NextApply ==
    \/ \E d \in TotalValues : CallApply(d)
    \/ \E d \in TotalValues : ApplyTotal1(d)

SpecApply == InitApply /\ [][NextApply]_vars

(***************************************************************************)
(* erase(id) of one caller taken statement by statement, in the keyed      *)
(* instantiation with ordered index.  The extractor values, the removal    *)
(* deltas and the reference to the record are taken first; then the        *)
(* statements of erase_order run one after the other.                      *)
(***************************************************************************)
\* slip: the record is released before the auxiliary structures are updated
erase_order_record_first == <<"elems", "index", "apply", "key", "monitor">>

\* lines 356-359, 361-365, 367, 369-370, 371
erase_order == <<"index", "apply", "key", "monitor", "elems">>

\* the statement the erase in progress executes next
EraseAt(s) == pc # <<>> /\ pc[1].op = "erase" /\ erase_order[pc[1].i] = s

\* the statement is done: on to the next one, or return
EraseNext ==
    pc' = IF pc[1].i = Len(erase_order) THEN <<>> ELSE <<[pc[1] EXCEPT !.i = @ + 1]>>

\* lk = maybe_lock(); it = elems_.find(id); return if absent; old_ext1,
\* old_ext2, rem1, rem2 from the record
EraseFind(id) ==
    /\ Returned
    /\ maybe_lock => coarse_mtx_ = 0
    /\ IF id \notin DOMAIN elems_
       THEN /\ last' = Call("erase", id, Neutral)
            /\ UNCHANGED pc
       ELSE /\ pc' = <<[op |-> "erase", i |-> 1, id |-> id, key |-> key_[id],
                        old_ext1 |-> Ext1(Total1Mode, elems_[id].lastElem1, elems_[id].lastElem2),
                        old_ext2 |-> Ext2(Total2Mode, elems_[id].lastElem1, elems_[id].lastElem2),
                        rem1 |-> DeltaFn(delta1_, 0, 0, elems_[id].lastElem1, elems_[id].lastElem2),
                        rem2 |-> DeltaFn(delta2_, 0, 0, elems_[id].lastElem1, elems_[id].lastElem2)]>>
            /\ last' = Call("erase", id, Snap(elems_, id))
    /\ notified' = <<>> /\ idx_ops' = 0 /\ ret' = <<>>
    /\ UNCHANGED <<config, cmp_, data, coarse_mtx_, ordered_mtx_, fine, loc, todo, got, rest>>

\* ordered_index_->erase(id) under ordered_mtx_; the comparator reads the
\* records with elems_.at, which throws for an id without record
EraseIndexErase ==
    /\ EraseAt("index")
    /\ ordered_mtx_ = 0
    /\ IF pc[1].id \in DOMAIN elems_ \/ ordered_index_ = <<>>
       THEN /\ ordered_index_' = IF ordered_index_ = <<>> THEN <<>>
                                 ELSE set_erase(index_cmp_, elems_, ordered_index_, pc[1].id)
            /\ idx_ops' = idx_ops + 1
            /\ EraseNext
       ELSE /\ pc' = <<>>
            /\ UNCHANGED <<ordered_index_, idx_ops>>
    /\ UNCHANGED <<config, cmp_, elems_, monitors_, index_cmp_, idx1_, idx2_, total1_,
                   total2_, nextId_, notified, ret, last, coarse_mtx_, ordered_mtx_, fine,
                   loc, todo, got, rest>>

\* apply_pair(rem1, rem2, old_ext1, none, old_ext2, none)
EraseApplyPair ==
    /\ EraseAt("apply")
    /\ LET agg == apply_pair(total1_, total2_, idx1_, idx2_, pc[1].rem1, pc[1].rem2,
                             pc[1].old_ext1, NoVal, pc[1].old_ext2, NoVal)
       IN /\ total1_' = agg.total1 /\ total2_' = agg.total2
          /\ idx1_' = agg.idx1 /\ idx2_' = agg.idx2
          /\ notified' = agg.notified
    /\ EraseNext
    /\ UNCHANGED <<config, cmp_, elems_, monitors_, ordered_index_, index_cmp_, nextId_,
                   idx_ops, ret, last, coarse_mtx_, ordered_mtx_, fine, loc, todo, got, rest>>

\* key_index_.erase(rec.key)
EraseKeyIndex ==
    /\ EraseAt("key")
    /\ key_index_' = Drop(key_index_, pc[1].key)
    /\ EraseNext
    /\ UNCHANGED <<config, cmp_, data, ghost, coarse_mtx_, ordered_mtx_, fine, loc, todo, got,
                   script, key_, issued, erases>>

\* mit->second.close(); monitors_.erase(id)
EraseMonitor ==
    /\ EraseAt("monitor")
    /\ monitors_' = monitors_ \ {pc[1].id}
    /\ EraseNext
    /\ UNCHANGED <<config, cmp_, elems_, ordered_index_, index_cmp_, idx1_, idx2_,
                   total1_, total2_, nextId_, ghost, coarse_mtx_, ordered_mtx_, fine, loc,
                   todo, got, rest>>

\* elems_.erase(it): the record, and the key stored in it, are gone
EraseElems ==
    /\ EraseAt("elems")
    /\ elems_' = Drop(elems_, pc[1].id)
    /\ key_' = Drop(key_, pc[1].id)
    /\ erases' = erases + 1
    /\ EraseNext
    /\ UNCHANGED <<config, cmp_, monitors_, ordered_index_, index_cmp_, idx1_, idx2_,
                   total1_, total2_, nextId_, ghost, coarse_mtx_, ordered_mtx_, fine, loc,
                   todo, got, script, key_index_, issued>>

InitErase ==
    /\ \E i \in {<<"Add", "Add">>, <<"Min", "Max">>} : Total1Mode = i[1] /\ Total2Mode = i[2]
    /\ MaintainOrderedIndex = TRUE
    /\ combined_atomic_ \in BOOLEAN
    /\ coarse_lock_enabled_ = FALSE
    /\ Constructed
    /\ NoThreads
    /\ script = <<>>

NextErase ==
    \/ \E e2 \in Elem2Vals, k \in {"a", DefaultKey} : KeyedPushBack(1, e2, k)
    \/ \E id \in Ids : EraseFind(id)
    \/ EraseIndexErase
    \/ EraseApplyPair
    \/ EraseKeyIndex
    \/ EraseMonitor
    \/ EraseElems

SpecErase == InitErase /\ [][NextErase]_vars

(***************************************************************************)
(* A field update taken statement by statement, Total1 in Min and Total2   *)
(* in Max mode, with the ordered index: one thread calls elem2Var(id) and  *)
(* writes the Var it got, which runs the change callback of push_one on    *)
(* that thread, while another thread calls push_back and erase.  The       *)
(* callback holds no lock but ordered_mtx_ around its two index calls, so  *)
(* a whole erase(id) fits between any two of its statements.  After that   *)
(* erase the callback's reference r = it->second dangles: what it reads    *)
(* through r is not determined, what it writes through r is lost, and a    *)
(* comparator call on the id ends in std::out_of_range from elems_.at(id). *)
(* Runs are followed until the ordered index holds an id that is not in    *)
(* elems_; every later comparator call meets elems_.at of that id.         *)
(***************************************************************************)
NoLocals ==
    [id |-> 0, ne1 |-> 0, ne2 |-> 0, need_reinsert |-> TRUE,
     old_ext1 |-> 0, new_ext1 |-> 0, old_ext2 |-> 0, new_ext2 |-> 0,
     was |-> <<0, 0>>, top |-> NoVal, cur1 |-> 0, cur2 |-> 0, changed1 |-> FALSE, changed2 |-> FALSE,
     ev |-> <<>>]

InitUpdate ==
    /\ Total1Mode = "Min" /\ Total2Mode = "Max"
    /\ MaintainOrderedIndex = TRUE
    /\ combined_atomic_ \in BOOLEAN
    /\ coarse_lock_enabled_ = FALSE
    /\ Constructed
    /\ coarse_mtx_ = 0 /\ ordered_mtx_ = 0
    /\ combined_mtx_ = 0 /\ total1_mtx_ = 0 /\ total2_mtx_ = 0
    /\ pc = [updater |-> [at |-> "idle", n |-> 0]]
    /\ loc = [updater |-> NoLocals]
    /\ todo = <<>> /\ got = <<>>
    /\ script = <<>>

\* every id in the ordered index has a record in elems_
IndexSound == \A i \in 1..Len(ordered_index_) : ordered_index_[i] \in DOMAIN elems_

At(a, n) == pc.updater = [at |-> a, n |-> n]

Goto(a, n) == pc' = [pc EXCEPT !.updater = [at |-> a, n |-> n]]

\* slip: the snapshot is overwritten before the id is taken out of the index
after_overwrite_first(a, n) ==
    CASE a = "find" -> <<"snapshot", 0>>
      [] a = "snapshot" -> <<"index_erase", 0>>
      [] a = "index_erase" -> <<"index_insert", 0>>
      [] a = "index_insert" -> IF combined_atomic_ THEN <<"combined_read", 0>>
                               ELSE <<"erase_one_index", 1>>
      [] a = "combined_read" -> <<"erase_one_index", 1>>
      [] a = "erase_one_index" -> <<"insert_index", n>>
      [] a = "insert_index" -> <<"top_index", n>>
      [] a = "top_index" -> IF ~combined_atomic_ THEN <<"total_value", n>>
                            ELSE IF n = 1 THEN <<"erase_one_index", 2>>
                            ELSE <<"batch", 0>>
      [] a = "total_value" -> IF n = 1 THEN <<"erase_one_index", 2>> ELSE <<"idle", 0>>
      [] a = "batch" -> <<"idle", 0>>

\* slip: the extreme is read before the new value is in the count map
after_top_before_insert(a, n) ==
    CASE a = "find" -> <<"index_erase", 0>>
      [] a = "index_erase" -> <<"snapshot", 0>>
      [] a = "snapshot" -> <<"index_insert", 0>>
      [] a = "index_insert" -> IF combined_atomic_ THEN <<"combined_read", 0>>
                               ELSE <<"erase_one_index", 1>>
      [] a = "combined_read" -> <<"erase_one_index", 1>>
      [] a = "erase_one_index" -> <<"top_index", n>>
      [] a = "top_index" -> <<"insert_index", n>>
      [] a = "insert_index" -> IF ~combined_atomic_ THEN <<"total_value", n>>
                               ELSE IF n = 1 THEN <<"erase_one_index", 2>>
                               ELSE <<"batch", 0>>
      [] a = "total_value" -> IF n = 1 THEN <<"erase_one_index", 2>> ELSE <<"idle", 0>>
      [] a = "batch" -> <<"idle", 0>>

\* the statement that the callback and its apply_pair execute after
\* statement a (of Total n), in the order of the source text
after(a, n) ==
    CASE a = "find" -> <<"index_erase", 0>>
      [] a = "index_erase" -> <<"snapshot", 0>>
      [] a = "snapshot" -> <<"index_insert", 0>>
      [] a = "index_insert" -> IF combined_atomic_ THEN <<"combined_read", 0>>
                               ELSE <<"erase_one_index", 1>>
      [] a = "combined_read" -> <<"erase_one_index", 1>>
      [] a = "erase_one_index" -> <<"insert_index", n>>
      [] a = "insert_index" -> <<"top_index", n>>
      [] a = "top_index" -> IF ~combined_atomic_ THEN <<"total_value", n>>
                            ELSE IF n = 1 THEN <<"erase_one_index", 2>>
                            ELSE <<"batch", 0>>
      [] a = "total_value" -> IF n = 1 THEN <<"erase_one_index", 2>> ELSE <<"idle", 0>>
      [] a = "batch" -> <<"idle", 0>>

\* control moves past statement a
Step(a, n) == Goto(after(a, n)[1], after(a, n)[2])

\* the callback, or a throw out of it, returns to the writer of the cell
Return == Goto("idle", 0) /\ loc' = [loc EXCEPT !.updater = NoLocals]

\* what r.lastElem1, r.lastElem2 can give (every record was pushed with
\* elem1 = 1)
ReadRecord(id) ==
    IF id \in DOMAIN elems_ THEN {Snap(elems_, id)} ELSE {1} \X Elem2Vals

\* the callback records what it does
Did(e) == [loc.updater EXCEPT !.ev = Append(@, e)]

\* auto &v = elem2Var(id) of a live id
UpdElemVar(id) ==
    /\ At("idle", 0)
    /\ id \in DOMAIN elems_
    /\ Goto("have_var", 0)
    /\ loc' = [loc EXCEPT !.updater = [NoLocals EXCEPT !.id = id]]
    /\ UNCHANGED <<config, cmp_, data, ghost, coarse_mtx_, ordered_mtx_, fine, todo, got, rest>>

\* v.value(x): the cell takes x and, while the subscription is open, the
\* change callback is entered with the values of the two cells
UpdValue(x) ==
    /\ At("have_var", 0)
    /\ loc.updater.id \in DOMAIN elems_ => x # elems_[loc.updater.id].lastElem2
    /\ IF loc.updater.id \in monitors_ /\ loc.updater.id \in DOMAIN elems_
       THEN /\ Goto("find", 0)
            /\ loc' = [loc EXCEPT !.updater.ne1 = elems_[loc.updater.id].lastElem1,
                                  !.updater.ne2 = x,
                                  !.updater.was = Snap(elems_, loc.updater.id)]
       ELSE Return
    /\ UNCHANGED <<config, cmp_, data, ghost, coarse_mtx_, ordered_mtx_, fine, todo, got, rest>>

\* it = elems_.find(id); if (it == elems_.end()) return
CbFind ==
    /\ At("find", 0)
    /\ IF loc.updater.id \in DOMAIN elems_
       THEN Step("find", 0) /\ UNCHANGED loc
       ELSE Return
    /\ UNCHANGED <<config, cmp_, data, ghost, coarse_mtx_, ordered_mtx_, fine, todo, got, rest>>

\* under ordered_mtx_: equiv from r.lastElem and the new values;
\* ordered_index_->erase(id) unless equivalent
CbIndexErase ==
    /\ At("index_erase", 0)
    /\ ordered_mtx_ = 0
    /\ IndexSound
    /\ \E snap \in ReadRecord(loc.updater.id) :
         LET id == loc.updater.id
             reins == need_reinsert(cmp_, snap[1], snap[2], loc.updater.ne1, loc.updater.ne2)
         IN IF ~reins
            THEN /\ Step("index_erase", 0)
                 /\ loc' = [loc EXCEPT !.updater.need_reinsert = FALSE]
                 /\ UNCHANGED ordered_index_
            ELSE IF id \in DOMAIN elems_
            THEN /\ Step("index_erase", 0)
                 /\ ordered_index_' = set_erase(index_cmp_, elems_, ordered_index_, id)
                 /\ loc' = [loc EXCEPT !.updater = Did(<<"index_erase", snap>>)]
            ELSE IF ordered_index_ = <<>>
            THEN /\ Step("index_erase", 0)
                 /\ loc' = [loc EXCEPT !.updater = Did(<<"index_erase", snap>>)]
                 /\ UNCHANGED ordered_index_
            ELSE Return /\ UNCHANGED ordered_index_
    /\ UNCHANGED <<config, cmp_, elems_, monitors_, index_cmp_, idx1_, idx2_, total1_,
                   total2_, nextId_, ghost, coarse_mtx_, ordered_mtx_, fine, todo, got, rest>>

\* the extractor values of the old and the new snapshot, then
\* r.lastElem1 = ne1; r.lastElem2 = ne2
CbSnapshot ==
    /\ At("snapshot", 0)
    /\ \E snap \in ReadRecord(loc.updater.id) :
         loc' = [loc EXCEPT !.updater =
                    [Did(<<"overwrite">>) EXCEPT
                        !.old_ext1 = DefaultExtract1(snap[1], snap[2]),
                        !.new_ext1 = DefaultExtract1(loc.updater.ne1, loc.updater.ne2),
                        !.old_ext2 = DefaultExtract2(snap[1], snap[2]),
                        !.new_ext2 = DefaultExtract2(loc.updater.ne1, loc.updater.ne2)]]
    /\ elems_' = IF loc.updater.id \in DOMAIN elems_
                 THEN Put(elems_, loc.updater.id, Rec(loc.updater.ne1, loc.updater.ne2))
                 ELSE elems_
    /\ Step("snapshot", 0)
    /\ UNCHANGED <<config, cmp_, monitors_, ordered_index_, index_cmp_, idx1_, idx2_,
                   total1_, total2_, nextId_, ghost, coarse_mtx_, ordered_mtx_, fine, todo,
                   got, rest>>

\* under ordered_mtx_: if (need_reinsert) ordered_index_->insert(id); then
\* apply_pair is entered
CbIndexInsert ==
    /\ At("index_insert", 0)
    /\ ordered_mtx_ = 0
    /\ IndexSound
    /\ LET id == loc.updater.id
           enter == Step("index_insert", 0)
       IN IF ~loc.updater.need_reinsert
          THEN enter /\ UNCHANGED <<ordered_index_, loc>>
          ELSE IF id \in DOMAIN elems_
          THEN /\ enter
               /\ ordered_index_' = set_insert(index_cmp_, elems_, ordered_index_, id)
               /\ loc' = [loc EXCEPT !.updater = Did(<<"index_insert">>)]
          ELSE IF ordered_index_ = <<>>
          THEN /\ enter
               /\ ordered_index_' = <<id>>
               /\ loc' = [loc EXCEPT !.updater = Did(<<"index_insert">>)]
          ELSE Return /\ UNCHANGED ordered_index_
    /\ UNCHANGED <<config, cmp_, elems_, monitors_, index_cmp_, idx1_, idx2_, total1_,
                   total2_, nextId_, ghost, coarse_mtx_, ordered_mtx_, fine, todo, got, rest>>

\* combined path: lock combined_mtx_; cur1 = total1_.get(); cur2 = total2_.get()
CbCombinedRead ==
    /\ At("combined_read", 0)
    /\ loc' = [loc EXCEPT !.updater.cur1 = total1_, !.updater.cur2 = total2_,
                          !.updater.changed1 = FALSE, !.updater.changed2 = FALSE]
    /\ Step("combined_read", 0)
    /\ UNCHANGED <<config, cmp_, data, ghost, coarse_mtx_, ordered_mtx_, fine, todo, got, rest>>

\* if (have_old && old) erase_one_index<n>(*old)
CbEraseOneIndex(n) ==
    /\ At("erase_one_index", n)
    /\ IF n = 1
       THEN idx1_' = erase_one_index(idx1_, loc.updater.old_ext1) /\ UNCHANGED idx2_
       ELSE idx2_' = erase_one_index(idx2_, loc.updater.old_ext2) /\ UNCHANGED idx1_
    /\ loc' = [loc EXCEPT !.updater = Did(<<"erase_one_index", n>>)]
    /\ Step("erase_one_index", n)
    /\ UNCHANGED <<config, cmp_, elems_, monitors_, ordered_index_, index_cmp_, total1_,
                   total2_, nextId_, ghost, coarse_mtx_, ordered_mtx_, fine, todo, got, rest>>

\* if (have_new && new) insert_index<n>(*new)
CbInsertIndex(n) ==
    /\ At("insert_index", n)
    /\ IF n = 1
       THEN idx1_' = insert_index(idx1_, loc.updater.new_ext1) /\ UNCHANGED idx2_
       ELSE idx2_' = insert_index(idx2_, loc.updater.new_ext2) /\ UNCHANGED idx1_
    /\ loc' = [loc EXCEPT !.updater = Did(<<"insert_index", n>>)]
    /\ Step("insert_index", n)
    /\ UNCHANGED <<config, cmp_, elems_, monitors_, ordered_index_, index_cmp_, total1_,
                   total2_, nextId_, ghost, coarse_mtx_, ordered_mtx_, fine, todo, got, rest>>

\* auto top = top_index<n>(); on the combined path cur<n> and changed<n>
\* are settled from it
CbTopIndex(n) ==
    /\ At("top_index", n)
    /\ LET top == IF n = 1 THEN top_index(Total1Mode, idx1_) ELSE top_index(Total2Mode, idx2_)
           val == IF top # NoVal THEN top[1] ELSE Sentinel
           L == [Did(<<"top_index", n>>) EXCEPT !.top = top]
       IN /\ loc' = [loc EXCEPT !.updater =
                        IF ~combined_atomic_ THEN L
                        ELSE IF n = 1
                        THEN [L EXCEPT !.cur1 = val, !.changed1 = (loc.updater.cur1 # val)]
                        ELSE [L EXCEPT !.cur2 = val, !.changed2 = (loc.updater.cur2 # val)]]
          /\ Step("top_index", n)
    /\ UNCHANGED <<config, cmp_, data, ghost, coarse_mtx_, ordered_mtx_, fine, todo, got, rest>>

\* non-combined path: total<n>_.value(*top), or total<n>_.value(total_type{})
CbTotalValue(n) ==
    /\ At("total_value", n)
    /\ LET val == IF loc.updater.top # NoVal THEN loc.updater.top[1] ELSE Sentinel
       IN IF n = 1
          THEN total1_' = val /\ UNCHANGED total2_
          ELSE total2_' = val /\ UNCHANGED total1_
    /\ IF after("total_value", n)[1] = "idle"
       THEN Return
       ELSE Step("total_value", n) /\ loc' = [loc EXCEPT !.updater = Did(<<"total_value", n>>)]
    /\ UNCHANGED <<config, cmp_, elems_, monitors_, ordered_index_, index_cmp_, idx1_,
                   idx2_, nextId_, ghost, coarse_mtx_, ordered_mtx_, fine, todo, got, rest>>

\* combined path: if (changed1 || changed2) batchExecute of the two writes
CbBatchExecute ==
    /\ At("batch", 0)
    /\ total1_' = IF loc.updater.changed1 THEN loc.updater.cur1 ELSE total1_
    /\ total2_' = IF loc.updater.changed2 THEN loc.updater.cur2 ELSE total2_
    /\ Return
    /\ UNCHANGED <<config, cmp_, elems_, monitors_, ordered_index_, index_cmp_, idx1_,
                   idx2_, nextId_, ghost, coarse_mtx_, ordered_mtx_, fine, todo, got, rest>>

\* push_back(1, e2) by the other thread, as one step
OtherPushBack(e2) ==
    /\ IndexSound
    /\ nextId_ <= MaxId
    /\ Commit(push_one(nextId_, 1, e2))
    /\ nextId_' = nextId_ + 1
    /\ UNCHANGED <<config, cmp_, index_cmp_, ghost, threads, rest>>

\* erase(id) of a live id by the other thread, as one step
OtherErase(id) ==
    /\ IndexSound
    /\ id \in DOMAIN elems_
    /\ Commit(erase(id))
    /\ UNCHANGED <<config, cmp_, index_cmp_, nextId_, ghost, threads, rest>>

NextUpdate ==
    \/ \E e2 \in Elem2Vals : OtherPushBack(e2)
    \/ \E id \in Ids : OtherErase(id)
    \/ \E id \in Ids : UpdElemVar(id)
    \/ \E x \in Elem2Vals : UpdValue(x)
    \/ CbFind
    \/ CbIndexErase
    \/ CbSnapshot
    \/ CbIndexInsert
    \/ CbCombinedRead
    \/ \E n \in {1, 2} : CbEraseOneIndex(n)
    \/ \E n \in {1, 2} : CbInsertIndex(n)
    \/ \E n \in {1, 2} : CbTopIndex(n)
    \/ \E n \in {1, 2} : CbTotalValue(n)
    \/ CbBatchExecute

SpecUpdate == InitUpdate /\ [][NextUpdate]_vars

(***************************************************************************)
(* Properties                                                              *)
(***************************************************************************)
Live == DOMAIN elems_

RECURSIVE SumOver(_, _, _)
SumOver(E, S, product) ==
    IF S = {} THEN 0
    ELSE LET x == CHOOSE y \in S : TRUE
         IN (IF product THEN E[x].lastElem1 * E[x].lastElem2 ELSE E[x].lastElem2)
            + SumOver(E, S \ {x}, product)

\* C1: in Add mode with the default functors, after every call total1() is
\* the sum of field2 and total2() the sum of field1*field2 over the snapshots
\* of the live elements (0 when none is live).
C1_AddTotalsAreSums ==
    /\ Total1Mode = "Add" => total1_ = SumOver(elems_, Live, FALSE)
    /\ Total2Mode = "Add" => total2_ = SumOver(elems_, Live, TRUE)

\* a live element was erased, others remain, both Totals additive
C1_Witness ==
    /\ Total1Mode = "Add" /\ Total2Mode = "Add"
    /\ last.op = "erase" /\ last.old # Neutral
    /\ Cardinality(Live) >= 2
    /\ total2_ > total1_

Extracted1 == {DefaultExtract1(elems_[x].lastElem1, elems_[x].lastElem2) : x \in Live}

Extracted2 == {DefaultExtract2(elems_[x].lastElem1, elems_[x].lastElem2) : x \in Live}

Extreme(mode, total, S) ==
    IF S = {} THEN total = 0
    ELSE /\ total \in S
         /\ \A v \in S : IF mode = "Min" THEN total <= v ELSE total >= v

\* C2: a Total in Min (Max) mode equals, after every call, the minimum
\* (maximum) of the extractor over the live snapshots, and the zero sentinel
\* when no element is live; erasing one of two elements that share the
\* extreme leaves the Total at that value.
C2_MinMaxTotalIsExtreme ==
    /\ Total1Mode # "Add" => Extreme(Total1Mode, total1_, Extracted1)
    /\ Total2Mode # "Add" => Extreme(Total2Mode, total2_, Extracted2)

\* the erased element carried the extreme that the Total still shows
C2_Witness ==
    /\ Total1Mode = "Min" /\ Total2Mode = "Max"
    /\ last.op = "erase" /\ last.old # Neutral
    /\ Live # {}
    /\ total1_ = DefaultExtract1(last.old[1], last.old[2])
    /\ total2_ = DefaultExtract2(last.old[1], last.old[2])

Equivalent(c, a, b) ==
    ~CompareFn(c, a[1], a[2], b[1], b[2]) /\ ~CompareFn(c, b[1], b[2], a[1], a[2])

\* s holds each live id once and no other id, in non-decreasing order of c
\* over the snapshots, equivalent elements by ascending id
SortedAndComplete(s, c) ==
    /\ Len(s) = Cardinality(Live)
    /\ {s[i] : i \in 1..Len(s)} = Live
    /\ \A i, j \in 1..Len(s) :
           i < j =>
               LET a == Snap(elems_, s[i])
                   b == Snap(elems_, s[j])
               IN /\ ~CompareFn(c, b[1], b[2], a[1], a[2])
                  /\ Equivalent(c, a, b) => s[i] < s[j]

\* C3: with the ordered index enabled, after every call a forward traversal
\* yields each live id exactly once and no other id, in non-decreasing order
\* of the current comparator over the snapshots, comparator-equivalent
\* elements by ascending id.
C3_TraversalSortedAndComplete ==
    MaintainOrderedIndex => SortedAndComplete(ordered_index_, cmp_)

\* a reordering update under a replaced comparator, with equivalent elements
C3_Witness ==
    /\ cmp_ = "ByElem2Desc"
    /\ last.op = "update" /\ idx_ops = 2
    /\ Len(ordered_index_) = 3
    /\ ordered_index_[1] > ordered_index_[2]
    /\ Equivalent(cmp_, Snap(elems_, ordered_index_[2]), Snap(elems_, ordered_index_[3]))

Min2(a, b) == IF a < b THEN a ELSE b

\* the first k entries of the index read from its greatest end
Greatest(k) ==
    [i \in 1..Min2(k, Len(ordered_index_)) |-> ordered_index_[Len(ordered_index_) + 1 - i]]

\* the first k entries of the index read from its smallest end
Smallest(k) ==
    [i \in 1..Min2(k, Len(ordered_index_)) |-> ordered_index_[i]]

\* C4: top_k(0) and bottom_k(0) are empty; for k >= size() they return all
\* live ids in descending resp. ascending index order; for 0 < k < size()
\* exactly the k greatest (greatest first) resp. the k smallest (smallest
\* first).
C4_TopBottomK ==
    /\ last.op = "top_k" => ret = Greatest(last.arg)
    /\ last.op = "bottom_k" => ret = Smallest(last.arg)
    /\ \A k \in 0..(MaxId + 1) : top_k(k) = Greatest(k) /\ bottom_k(k) = Smallest(k)

\* top_k(k) was called with 0 < k < size()
C4_Witness ==
    /\ last.op = "top_k"
    /\ 0 < last.arg /\ last.arg < Len(ordered_index_)
    /\ last.arg = 2 /\ Len(ordered_index_) = 3
    /\ ret = <<ordered_index_[3], ordered_index_[2]>>
    /\ ret[1] < ret[2]

\* C7: in combined-atomic mode a call that changes both Totals notifies the
\* observers of the Totals once, with both new values: never with one Total
\* new and the other still old.
C7_CombinedPublishesOnce ==
    [][(combined_atomic_ /\ total1_' # total1_ /\ total2_' # total2_) =>
           /\ Len(notified') = 1
           /\ \A i \in 1..Len(notified') :
                  /\ notified'[i] = <<total1_', total2_'>>
                  /\ notified'[i] # <<total1_', total2_>>
                  /\ notified'[i] # <<total1_, total2_'>>]_vars

\* a field update in combined-atomic mode that moved both sums
C7_Witness ==
    /\ combined_atomic_
    /\ Total1Mode = "Add" /\ Total2Mode = "Add"
    /\ last.op = "update"
    /\ last.old[2] # elems_[last.arg].lastElem2
    /\ notified = << <<total1_, total2_>> >>

\* C9: a field update to a snapshot that is comparator-equivalent to the
\* previous one performs no erase and no insert on the ordered index and
\* leaves every element at its position.
C9_EquivalentUpdateKeepsIndex ==
    [][\A id \in Ids :
           (/\ last'.op = "update" /\ last'.arg = id
            /\ id \in DOMAIN elems_ /\ id \in DOMAIN elems_'
            /\ Equivalent(cmp_, Snap(elems_, id), Snap(elems_', id)))
           => (idx_ops' = 0 /\ ordered_index_' = ordered_index_)]_vars

\* an update changed a snapshot to an equivalent, different one
C9_Witness ==
    /\ last.op = "update"
    /\ last.arg \in Live
    /\ last.old # Snap(elems_, last.arg)
    /\ Equivalent(cmp_, last.old, Snap(elems_, last.arg))
    /\ Len(ordered_index_) >= 2

\* C10: rebuild_ordered_index() leaves the traversal of the ordered index
\* the identical id sequence (so a second rebuild changes nothing either).
C10_RebuildKeepsTraversal ==
    [][last'.op = "rebuild_ordered_index" =>
           /\ ordered_index_' = ordered_index_
           /\ index_cmp_' = index_cmp_]_vars

\* a rebuild of an index of three elements, two of them equivalent, under a
\* replaced comparator
C10_Witness ==
    /\ last.op = "rebuild_ordered_index"
    /\ cmp_ # "DefaultCompare"
    /\ Len(ordered_index_) = 3
    /\ \E i \in 1..2 : Equivalent(cmp_, Snap(elems_, ordered_index_[i]),
                                  Snap(elems_, ordered_index_[i + 1]))

TheScenario == [in |-> << <<15, 10>>, <<20, 20>>, <<5, 15>> >>, upd |-> 30]

AllJoined == \A t \in Threads : pc[t] = "idle" /\ todo[t].push = 0 /\ todo[t].erase = 0

\* C5: with coarse locking, when the threads have each pushed PerThread
\* elements and erased half of the ids they received, size() is the number
\* of elements not erased, and no id was returned by two push_back calls.
C5_CoarseThreads ==
    coarse_lock_enabled_ =>
        /\ AllJoined =>
               Cardinality(DOMAIN elems_) = NumThreads * (PerThread - PerThread \div 2)
        /\ \A t, u \in Threads : \A i \in 1..Len(got[t]), j \in 1..Len(got[u]) :
               (t # u \/ i # j) => got[t][i] # got[u][j]

\* all threads have joined after interleaved pushes
C5_Witness ==
    /\ coarse_lock_enabled_ /\ AllJoined
    /\ got[1][1] < got[2][1] /\ got[2][1] < got[1][2]

\* the first k entries of s read from its greatest end
GreatestOf(s, k) == [i \in 1..Min2(k, Len(s)) |-> s[Len(s) + 1 - i]]

\* C8: set_compare replaces the ordered index in one atomic publication:
\* when it has returned the index holds exactly the live ids ordered by the
\* new comparator with id tie-break, and a top_k that ran concurrently
\* returns what the complete old index or the complete new index gives.
C8_SetCompareAtomic ==
    /\ (pc.writer = "idle" /\ last.op = "set_compare") =>
           SortedAndComplete(ordered_index_, cmp_)
    /\ (pc.reader = "idle" /\ last.op = "top_k") =>
           \E s \in loc.reader.seen : ret = GreatestOf(s, last.arg)

\* single-threaded part of C8: a completed set_compare leaves the index
\* sorted under the new comparator
C8_SwapResult ==
    (pc.writer = "idle" /\ last.op = "set_compare") =>
        SortedAndComplete(ordered_index_, cmp_)

\* a top_k call during which set_compare swapped the index has returned
C8_Witness ==
    /\ pc.reader = "idle" /\ last.op = "top_k"
    /\ Cardinality(loc.reader.seen) = 2
    /\ Len(ordered_index_) >= 2

\* C11: erase(id) of an id that is not live and erase_by_key(k) of a key that
\* is not in the key index return without a failure and leave the element
\* store, both Totals, both count maps, the key index, the ordered index and
\* the id counter as they were.
C11_AbsentEraseIsNoOp ==
    [][(\/ last'.op = "erase" /\ last'.arg \notin DOMAIN elems_
        \/ Returned /\ last'.op = "erase_by_key" /\ last'.arg[1] \notin DOMAIN key_index_)
       => /\ UNCHANGED <<data, keyed>>
          /\ ret' = <<>>
          /\ Returned']_vars

\* an id that was erased before is erased again, in a collection that still
\* holds an element and a key
C11_Witness ==
    /\ last.op = "erase" /\ last.old = Neutral /\ last.arg < nextId_
    /\ DOMAIN elems_ # {} /\ DOMAIN key_index_ # {}

\* C12: a freshly constructed collection is empty; every push_back adds one
\* to size() and every erase that targets a live id takes one away, an erase
\* of any other id none; empty() is true exactly when size() is 0.
C12_SizeCountsPushesAndErases ==
    /\ empty
    /\ [](empty <=> size = 0)
    /\ [][last'.op \in {"push_back", "push_batch", "erase", "erase_by_key"}
          => size' - size = (Len(issued') - Len(issued)) - (erases' - erases)]_vars

\* pushes and erases of live and of absent ids have happened
C12_Witness ==
    /\ Len(issued) = 3 /\ erases = 2 /\ size = 1
    /\ last.op = "erase" /\ last.old = Neutral

\* C13: ids are issued 1, 2, 3, ... one per push_back, single or in a batch,
\* never twice, whatever was erased or cleared in between; erase, erase_by_key
\* and clear consume no id.
C13_IdsIncreaseNeverReused ==
    /\ [](/\ issued = [i \in 1..Len(issued) |-> i]
          /\ nextId_ = Len(issued) + 1)
    /\ [][last'.op \in {"erase", "erase_by_key", "clear"} => nextId_' = nextId_]_vars

\* a push after an erase and a clear
C13_Witness ==
    /\ last.op = "push_back" /\ ret = <<3>>
    /\ erases = 1 /\ size = 1

\* C14: in a keyed collection, after every completed call, find_by_key(k)
\* gives an id exactly when a live element carries k, and that id is a live
\* element whose key is k.
C14_FindByKeyExact ==
    Returned =>
        \A k \in AllKeys :
            /\ find_by_key(k) # NoVal <=> \E id \in Live : key_[id] = k
            /\ find_by_key(k) # NoVal =>
                   find_by_key(k)[1] \in Live /\ key_[find_by_key(k)[1]] = k

\* two live elements were pushed with one key and one of them was erased
C14_Witness ==
    /\ Returned /\ last.op = "erase" /\ last.old # Neutral
    /\ \E id \in Live : key_[id] \notin DOMAIN key_index_

\* C15: erase_by_key(k) of a key in the key index returns, with coarse and
\* with fine-grained locking, and the element the key mapped to is gone from
\* the store, the ordered index and the key index; find_by_key(k) is absent.
C15_EraseByKeyReturns ==
    /\ ~Returned => ENABLED EraseByKeyErase
    /\ (Returned /\ last.op = "erase_by_key" /\ last.arg[2] # 0) =>
           /\ ret = <<>>
           /\ last.arg[2] \notin DOMAIN elems_
           /\ last.arg[2] \notin monitors_
           /\ \A i \in 1..Len(ordered_index_) : ordered_index_[i] # last.arg[2]
           /\ find_by_key(last.arg[1]) = NoVal

\* erase_by_key of a present key has returned (fine-grained locking)
C15_Witness ==
    /\ Returned /\ last.op = "erase_by_key" /\ last.arg[2] # 0
    /\ ret = <<>> /\ ~coarse_lock_enabled_
    /\ last.arg[2] \notin DOMAIN elems_

\* C16: in coarse mode a thread holding the handle of lock_public() can make
\* public calls, each of which returns, and no other thread is inside a
\* public call while the handle is held.
C16_HandleSerialises ==
    coarse_lock_enabled_ =>
        \A t \in Threads :
            todo[t].handle =>
                /\ (pc[t] = "idle" /\ todo[t].push > 0) => ENABLED PushCall(t)
                /\ \A u \in Threads \ {t} : pc[u] = "idle"

\* a thread holds the handle and has a push_back to make while another
\* thread is idle and waits for the mutex
C16_Witness ==
    /\ coarse_lock_enabled_
    /\ todo[1].handle /\ pc[1] = "idle" /\ todo[1].push > 0
    /\ pc[2] = "idle" /\ Len(got[2]) = 1

\* C17: in coarse mode every public call, set_compare and top_k included,
\* runs its whole body holding coarse_mtx_, so the bodies of two public calls
\* of different threads never overlap.
C17_CoarseCoversEveryCall ==
    coarse_lock_enabled_ =>
        /\ pc.writer # "idle" => coarse_mtx_ # 0
        /\ pc.reader # "idle" => coarse_mtx_ # 0
        /\ ~(pc.writer # "idle" /\ pc.reader # "idle")

\* in coarse mode set_compare is rebuilding the index while top_k iterates
C17_Witness ==
    /\ coarse_lock_enabled_
    /\ pc.writer = "swap" /\ pc.reader = "loop"
    /\ Len(ordered_index_) >= 2 /\ Len(loc.reader.out) = 1

\* C18: in coarse mode the change callback of a field update runs with
\* coarse_mtx_ held by the updating thread, and never while another thread
\* is inside push_back.
C18_CallbackUnderCoarseLock ==
    coarse_lock_enabled_ =>
        \A t \in Threads :
            pc[t] = "callback" =>
                /\ coarse_mtx_ = t
                /\ \A u \in Threads \ {t} :
                       pc[u] \notin {"push_read", "push_write", "push_store"}

\* a change callback is running while another thread is inside push_one
C18_Witness ==
    /\ coarse_lock_enabled_
    /\ pc[1] = "callback" /\ pc[2] = "push_store" /\ coarse_mtx_ = 2

\* C19: while a thread makes a structural write to the ordered index (here
\* the swap of set_compare and the destruction of the old set, under
\* ordered_mtx_), no other thread is reading the index in top_k.
C19_IndexWriterExcludesReaders ==
    (ordered_mtx_ # 0 /\ pc.writer \in {"swap", "destroy"}) => pc.reader # "loop"

\* top_k is in its loop while set_compare holds ordered_mtx_
C19_Witness ==
    /\ ordered_mtx_ # 0 /\ pc.writer = "destroy" /\ pc.reader = "loop"
    /\ loc.reader.nodes = "swapped"

\* got holds each id once
DistinctIds ==
    \A t, u \in Threads : \A i \in 1..Len(got[t]), j \in 1..Len(got[u]) :
        (t # u \/ i # j) => got[t][i] # got[u][j]

\* the count map idx holds, for every extracted value, the number of live
\* elements that have it
Counts(idx, second) ==
    \A v \in DOMAIN idx \cup (IF second THEN Extracted2 ELSE Extracted1) :
        (IF v \in DOMAIN idx THEN idx[v] ELSE 0)
        = Cardinality({x \in Live :
              (IF second THEN DefaultExtract2(elems_[x].lastElem1, elems_[x].lastElem2)
                         ELSE DefaultExtract1(elems_[x].lastElem1, elems_[x].lastElem2)) = v})

\* C20: in fine-grained mode without combined-atomic no two threads are at
\* the same time between reading and writing the same Total, and when
\* concurrent push_back calls have returned each Total and each count map
\* reflects all the elements pushed.
C20_FineTotalsGuarded ==
    (~coarse_lock_enabled_ /\ ~combined_atomic_) =>
        /\ \A t, u \in Threads :
               t # u => /\ ~(pc[t] = "total1_value" /\ pc[u] = "total1_value")
                        /\ ~(pc[t] = "total2_value" /\ pc[u] = "total2_value")
        /\ (AllJoined /\ DistinctIds) =>
               /\ Extreme(Total1Mode, total1_, Extracted1)
               /\ Extreme(Total2Mode, total2_, Extracted2)
               /\ Counts(idx1_, FALSE) /\ Counts(idx2_, TRUE)

\* both push_back calls have returned with different ids, both elements are
\* live, and a Total is not the extreme over them
C20_Witness ==
    /\ AllJoined /\ DistinctIds /\ Cardinality(Live) = 2
    /\ Counts(idx1_, FALSE) /\ Counts(idx2_, TRUE)
    /\ ~Extreme(Total1Mode, total1_, Extracted1)

\* C21: in fine-grained mode push_back calls that run concurrently on
\* different threads never return the same id to two callers.
C21_FineIdsDistinct ==
    ~coarse_lock_enabled_ => DistinctIds

\* both push_back calls have returned and both returned id 1; the store holds
\* one element
C21_Witness ==
    /\ ~coarse_lock_enabled_ /\ AllJoined
    /\ got[1] = <<1>> /\ got[2] = <<1>>
    /\ Cardinality(Live) = 1

\* C22: an erased id is never referenced again: in every reachable state,
\* whatever the interleaving of erase(id) with a change notification for the
\* same id in flight on another thread, the ordered index holds no id that
\* is absent from the element store; and a notification that reaches its
\* lookup after erase(id) has returned changes nothing.
C22_ErasedIdNeverReferenced ==
    /\ IndexSound
    /\ (At("find", 0) /\ loc.updater.id \notin DOMAIN elems_) =>
           ~ENABLED (CbFind /\ data' # data)

\* erase(id) ran between the callback's lookup and its reinsertion; the
\* callback has put the id back into the index and is inside apply_pair
C22_Witness ==
    /\ loc.updater.id \notin DOMAIN elems_
    /\ pc.updater.at \in {"erase_one_index", "combined_read"}
    /\ ordered_index_ = <<loc.updater.id>>

\* event x is in the record of the callback in progress
Past(x) == \E i \in 1..Len(loc.updater.ev) : loc.updater.ev[i] = x

\* every occurrence of y in that record has an x before it
Before(x, y) ==
    \A j \in 1..Len(loc.updater.ev) :
        loc.updater.ev[j] = y => \E i \in 1..(j - 1) : loc.updater.ev[i] = x

\* C29: within one element update in Min/Max mode, on the combined and on
\* the non-combined path, the old extracted value is removed from the count
\* map before the new one is inserted, the extreme is read from the map only
\* after both, and the Total is written after that read.
C29_RemovalBeforeInsertion ==
    \A n \in {1, 2} :
        /\ Before(<<"erase_one_index", n>>, <<"insert_index", n>>)
        /\ Before(<<"insert_index", n>>, <<"top_index", n>>)
        /\ Before(<<"top_index", n>>, <<"total_value", n>>)
        /\ At("top_index", n) => Past(<<"erase_one_index", n>>) /\ Past(<<"insert_index", n>>)
        /\ At("total_value", n) => Past(<<"top_index", n>>)
        /\ At("batch", 0) => Past(<<"top_index", n>>)

\* on the combined path an update that changes both extracted values has
\* read both extremes and is about to write the Totals
C29_Witness ==
    /\ At("batch", 0)
    /\ loc.updater.old_ext1 # loc.updater.new_ext1
    /\ loc.updater.old_ext2 # loc.updater.new_ext2
    /\ loc.updater.changed1
    /\ Len(loc.updater.ev) >= 6

\* C30: within one update that changes the element's place in the order (and
\* whose element is not erased meanwhile), the id leaves the ordered index
\* while the snapshot still holds the pre-update values, then the snapshot is
\* overwritten, then the id is reinserted; between the removal and the
\* reinsertion the id is not in the index, so the comparator is not evaluated
\* on it.
C30_EraseOverwriteReinsert ==
    LET L == loc.updater
        inIndex == \E i \in 1..Len(ordered_index_) : ordered_index_[i] = L.id
    IN (/\ pc.updater.at \notin {"idle", "have_var", "find"}
        /\ L.id \in DOMAIN elems_
        /\ need_reinsert(cmp_, L.was[1], L.was[2], L.ne1, L.ne2)) =>
           /\ ~Past(<<"overwrite">>) => Snap(elems_, L.id) = L.was
           /\ Past(<<"overwrite">>) =>
                  /\ L.ev[1] = <<"index_erase", L.was>>
                  /\ Snap(elems_, L.id) = <<L.ne1, L.ne2>>
           /\ Before(<<"overwrite">>, <<"index_insert">>)
           /\ (Past(<<"index_erase", L.was>>) /\ ~Past(<<"index_insert">>)) => ~inIndex
           /\ Past(<<"index_insert">>) => inIndex
           /\ pc.updater.at \notin {"index_erase", "snapshot", "index_insert"} =>
                  Past(<<"index_insert">>)

\* the snapshot of a live element has been overwritten, the id is out of the
\* index, which holds two other ids, and the reinsertion is next
C30_Witness ==
    /\ At("index_insert", 0)
    /\ loc.updater.id \in DOMAIN elems_
    /\ loc.updater.need_reinsert
    /\ Len(ordered_index_) = 2
    /\ \A i \in 1..Len(ordered_index_) : ordered_index_[i] # loc.updater.id

\* C23: in Add mode with the default functors clear() on a non-empty
\* collection ends in the state that erasing every live element one by one
\* ends in: size() is 0, the key index is empty, both Totals are 0, every
\* subscription is closed; clear() on an empty collection changes nothing;
\* the id counter is left as it was.
C23_ClearIsEraseAll ==
    [][(last'.op = "clear" /\ Total1Mode = "Add" /\ Total2Mode = "Add") =>
          LET T == erase_each(Members, DOMAIN elems_)
          IN /\ elems_' = T.elems /\ monitors_' = T.monitors
             /\ total1_' = T.total1 /\ total2_' = T.total2
             /\ idx1_' = T.idx1 /\ idx2_' = T.idx2
             /\ key_' = T.key /\ key_index_' = T.key_index
             /\ size' = 0 /\ key_index_' = EmptyMap /\ monitors_' = {}
             /\ total1_' = 0 /\ total2_' = 0
             /\ nextId_' = nextId_ /\ issued' = issued
             /\ empty => UNCHANGED <<data, keyed>>]_vars

\* clear() has emptied an additive collection of three elements
C23_Witness ==
    /\ last.op = "clear" /\ notified # <<>>
    /\ Total1Mode = "Add" /\ Total2Mode = "Add"
    /\ Len(issued) = 3 /\ erases = 0 /\ empty

\* C24: with the Totals in Min / Max mode, after clear() the count map of
\* each Total is empty and the Total is the neutral sentinel, and a
\* push_back that follows makes each Total the new element's extracted value.
C24_ClearResetsExtremes ==
    (Total1Mode # "Add" /\ Total2Mode # "Add") =>
        /\ last.op = "clear" =>
               /\ idx1_ = EmptyMap /\ idx2_ = EmptyMap
               /\ total1_ = Sentinel /\ total2_ = Sentinel
        /\ (last.op = "push_back" /\ size = 1) =>
               /\ total1_ = DefaultExtract1(elems_[ret[1]].lastElem1, elems_[ret[1]].lastElem2)
               /\ total2_ = DefaultExtract2(elems_[ret[1]].lastElem1, elems_[ret[1]].lastElem2)

\* clear() has emptied a Min/Max collection and the count maps still hold
\* the values of the elements that are gone
C24_Witness ==
    /\ Total1Mode = "Min" /\ Total2Mode = "Max"
    /\ last.op = "clear" /\ empty
    /\ idx1_ # EmptyMap /\ total1_ # Sentinel

\* C25: push_back of a vector of n pairs, with or without a key vector, ends
\* in the element store, Totals, count maps, key index and ordered index that
\* n single push_back calls made in vector order end in, and hands out the n
\* consecutive ids nextId_ .. nextId_ + n - 1 in vector order; on an empty
\* vector it changes no member and takes no id.
C25_BatchIsSequence ==
    [][last'.op = "push_batch" =>
       \A n \in {last'.arg}, m \in 0..2 :
         \A vals \in [1..n -> BatchVals], keys \in [1..m -> BatchKeys] :
           KeyedPushBatch(vals, keys) =>
             LET T == push_each(Members, vals, keys)
             IN /\ elems_' = T.elems /\ ordered_index_' = T.ordered
                /\ total1_' = T.total1 /\ total2_' = T.total2
                /\ idx1_' = T.idx1 /\ idx2_' = T.idx2
                /\ key_' = T.key /\ key_index_' = T.key_index
                /\ monitors_' = T.monitors /\ nextId_' = T.nextId
                /\ issued' = issued \o [i \in 1..n |-> nextId_ + i - 1]
                /\ \A i \in 1..n :
                       /\ elems_'[nextId_ + i - 1] = Rec(vals[i][1], vals[i][2])
                       /\ key_'[nextId_ + i - 1] = IF i <= m THEN keys[i] ELSE DefaultKey
                /\ n = 0 => UNCHANGED <<data, keyed, issued>>]_vars

\* a batch of two pairs with one key has been pushed after a single push_back
\* into a collection with ordered index
C25_Witness ==
    /\ last.op = "push_batch" /\ last.arg = 2
    /\ MaintainOrderedIndex /\ ordered_index_ = <<1, 2, 3>>
    /\ issued = <<1, 2, 3>>
    /\ key_[1] = "b" /\ key_[2] = "a" /\ key_[3] = DefaultKey
    /\ key_index_ = [k \in {"", "a", "b"} |-> CASE k = "" -> 3 [] k = "a" -> 2 [] k = "b" -> 1]

\* C28: elem1Var(id) and elem2Var(id) called with an id that is not live (never
\* handed out, or erased) return an explicit absent result and do not raise;
\* no member of the collection is changed by the call.
C28_AbsentLookupDoesNotRaise ==
    (last.op \in {"elem1Var", "elem2Var"} /\ last.arg \notin DOMAIN elems_) =>
        ret # <<"out_of_range">>

\* elem2Var has been called with the id of an element that was erased while
\* another element is live, and the exception has left the call
C28_Witness ==
    /\ last.op = "elem2Var" /\ last.arg \notin DOMAIN elems_
    /\ \E i \in 1..Len(issued) : issued[i] = last.arg
    /\ elems_ # EmptyMap
    /\ ret = <<"out_of_range">>

\* the extreme of the extractor values S in the given mode, total_type{} for
\* no value
ExtremeOf(mode, S) ==
    IF S = {} THEN Sentinel
    ELSE IF mode = "Min" THEN CHOOSE v \in S : \A w \in S : v <= w
    ELSE CHOOSE v \in S : \A w \in S : v >= w

\* C26: a Total in Min or Max mode is, after every call, the extreme of the
\* extractor values of the live elements, whatever delta and apply functors
\* the collection was instantiated with (NoopDelta with NoopApply among
\* them), in the combined-atomic and in the non-combined path.
C26_MinMaxIgnoresFunctors ==
    /\ Total1Mode # "Add" => total1_ = ExtremeOf(Total1Mode, Extracted1)
    /\ Total2Mode # "Add" => total2_ = ExtremeOf(Total2Mode, Extracted2)

\* the instantiation of CollIndexOnly, with Total2 also index-driven: an
\* update has moved the minimum of elem2 and the maximum of the product
C26_Witness ==
    /\ Total1Mode = "Min" /\ delta1_ = "NoopDelta" /\ apply1_ = "NoopApply"
    /\ Total2Mode = "Max" /\ delta2_ = "NoopDelta" /\ apply2_ = "NoopApply"
    /\ combined_atomic_
    /\ last.op = "update" /\ Cardinality(Live) = 2
    /\ total1_ = 1 /\ total2_ = 4
    /\ last.old = <<2, 2>>

\* C27: with Total1 additive, ReturnNewElem2 as its delta functor and
\* SetApply as its apply functor, total1() is after every push_back and after
\* every field update the elem2 of the element pushed or updated.
C27_SetApplyTracksLatestElem2 ==
    (Total1Mode = "Add" /\ delta1_ = "ReturnNewElem2" /\ apply1_ = "SetApply") =>
        (last.op \in {"push_back", "update"} => total1_ = elems_[last.arg].lastElem2)

\* the instantiation of CollSet: elem1 of the first of two elements has been
\* updated, and Total1 went from the elem2 of the second back to the elem2 of
\* the first
C27_Witness ==
    /\ Total1Mode = "Add" /\ delta1_ = "ReturnNewElem2" /\ apply1_ = "SetApply"
    /\ combined_atomic_
    /\ last.op = "update" /\ last.arg = 1 /\ last.old[1] # elems_[1].lastElem1
    /\ 2 \in DOMAIN elems_ /\ elems_[2].lastElem2 = 2
    /\ elems_[1].lastElem2 = 1 /\ total1_ = 1

\* the ids the key index maps to
KeyIndexIds == {key_index_[k] : k \in DOMAIN key_index_}

\* the ids in the ordered index
OrderedIds == {ordered_index_[i] : i \in 1..Len(ordered_index_)}

\* C31: in erase(id) of a live element the record leaves the element store
\* last: when elems_.erase is about to run, the id is out of the ordered
\* index, its removal has been applied to the Totals and count maps (they are
\* the ones of the other live elements), its key is out of the key index and
\* its subscription is closed; and in no state, intermediate ones included,
\* does the ordered index, the key index or the subscription table hold an id
\* without record.
C31_RecordReleasedLast ==
    /\ OrderedIds \subseteq Live
    /\ KeyIndexIds \subseteq Live
    /\ monitors_ \subseteq Live
    /\ EraseAt("elems") =>
           LET id == pc[1].id
               others == Live \ {id}
           IN /\ id \in Live
              /\ id \notin OrderedIds
              /\ id \notin monitors_
              /\ pc[1].key \notin DOMAIN key_index_
              /\ Total1Mode = "Add" => /\ total1_ = SumOver(elems_, others, FALSE)
                                       /\ total2_ = SumOver(elems_, others, TRUE)
              /\ Total1Mode # "Add" =>
                     /\ \A v \in DOMAIN idx1_ :
                            idx1_[v] = Cardinality({x \in others :
                                DefaultExtract1(elems_[x].lastElem1, elems_[x].lastElem2) = v})
                     /\ \A v \in DOMAIN idx2_ :
                            idx2_[v] = Cardinality({x \in others :
                                DefaultExtract2(elems_[x].lastElem1, elems_[x].lastElem2) = v})
                     /\ total1_ = ExtremeOf("Min", {DefaultExtract1(elems_[x].lastElem1,
                                                        elems_[x].lastElem2) : x \in others})
                     /\ total2_ = ExtremeOf("Max", {DefaultExtract2(elems_[x].lastElem1,
                                                        elems_[x].lastElem2) : x \in others})

\* erase of the keyed element 2 of three has reached elems_.erase in the
\* Min/Max instantiation
C31_Witness ==
    /\ EraseAt("elems") /\ pc[1].id = 2 /\ pc[1].key = "a"
    /\ Total1Mode = "Min" /\ Cardinality(Live) = 3
    /\ ordered_index_ # <<>>

\* the sum of the counts of a count map
RECURSIVE CountSum(_, _)
CountSum(idx, V) ==
    IF V = {} THEN 0
    ELSE LET v == CHOOSE x \in V : TRUE IN idx[v] + CountSum(idx, V \ {v})

\* the number of live elements whose extracted value is v
LiveWith(second, v) ==
    Cardinality({x \in Live :
        (IF second THEN DefaultExtract2(elems_[x].lastElem1, elems_[x].lastElem2)
                   ELSE DefaultExtract1(elems_[x].lastElem1, elems_[x].lastElem2)) = v})

\* C32: for each Total in Min/Max mode, after every completed push_back, field
\* update and erase of one caller the counts of its count map sum to the
\* number of live elements, the count under v is the number of live elements
\* whose extracted value is v, and no entry has count 0.
C32_CountMapMatchesLive ==
    /\ Total1Mode # "Add" =>
           /\ CountSum(idx1_, DOMAIN idx1_) = Cardinality(Live)
           /\ \A v \in DOMAIN idx1_ : idx1_[v] = LiveWith(FALSE, v) /\ idx1_[v] # 0
    /\ Total2Mode # "Add" =>
           /\ CountSum(idx2_, DOMAIN idx2_) = Cardinality(Live)
           /\ \A v \in DOMAIN idx2_ : idx2_[v] = LiveWith(TRUE, v) /\ idx2_[v] # 0

\* an erase has left two live elements that share their extracted elem2 and
\* differ in the product
C32_Witness ==
    /\ Total1Mode = "Max" /\ Total2Mode = "Min"
    /\ last.op = "erase" /\ last.old # Neutral
    /\ Cardinality(Live) = 2
    /\ \E v \in DOMAIN idx1_ : idx1_[v] = 2
    /\ \E v \in DOMAIN idx2_ : idx2_[v] = 1

(***************************************************************************)
(* Snapshots changed out of band.  The mutable iterators (begin(),         *)
(* ordered_begin(), ordered_rbegin()) hand out ElemRecord&, so a caller    *)
(* can assign lastElem1 / lastElem2 of a live record without the change    *)
(* callback running: neither the ordered index nor the count maps and      *)
(* Totals follow.  A std::set whose keys changed order under it may be     *)
(* searched by nobody, so this caller calls push_back and erase on the     *)
(* ordered index only while the index is in order, and otherwise           *)
(* rebuild_ordered_index() or set_compare() first.                         *)
(***************************************************************************)
\* (*it).second.lastElem1 = e1; (*it).second.lastElem2 = e2 for the record of id
OutOfBand(id, e1, e2) ==
    /\ id \in DOMAIN elems_
    /\ <<e1, e2>> # Snap(elems_, id)
    /\ elems_' = Put(elems_, id, Rec(e1, e2))
    /\ notified' = <<>> /\ idx_ops' = 0 /\ ret' = <<>>
    /\ last' = Call("out_of_band", id, Neutral)
    /\ UNCHANGED <<config, cmp_, monitors_, ordered_index_, index_cmp_, idx1_, idx2_,
                   total1_, total2_, nextId_, threads, rest>>

\* the ordered index may be searched
IndexInOrder == ~MaintainOrderedIndex \/ SortedAndComplete(ordered_index_, index_cmp_)

InitOutOfBand ==
    /\ \E i \in {<<"Add", "Add", TRUE>>, <<"Min", "Max", FALSE>>} :
           Total1Mode = i[1] /\ Total2Mode = i[2] /\ MaintainOrderedIndex = i[3]
    /\ combined_atomic_ = FALSE
    /\ coarse_lock_enabled_ = FALSE
    /\ Constructed
    /\ NoThreads
    /\ script = <<>>

NextOutOfBand ==
    \/ \E e2 \in Elem2Vals : IndexInOrder /\ PushBack(1, e2)
    \/ \E id \in Ids, e1 \in Elem1Vals, e2 \in Elem2Vals : OutOfBand(id, e1, e2)
    \/ \E id \in Ids : IndexInOrder /\ Erase(id)
    \/ MaintainOrderedIndex /\ RebuildOrderedIndex
    \/ \E c \in {"DefaultCompare", "ByElem2Desc"} : MaintainOrderedIndex /\ SetCompare(c)

SpecOutOfBand == InitOutOfBand /\ [][NextOutOfBand]_vars

\* C33: removing from a count map a value that has no entry is signalled as a
\* failure: an erase that returns normally has taken the element's extracted
\* values out of the count maps, which then count the live elements again.
C33_UnderflowFailsFast ==
    (last.op = "erase" /\ last.old # Neutral /\ ret = <<>> /\ Total1Mode # "Add") =>
        /\ CountSum(idx1_, DOMAIN idx1_) = Cardinality(Live)
        /\ CountSum(idx2_, DOMAIN idx2_) = Cardinality(Live)

\* the only element was erased after its elem2 had been changed out of band
\* from 1 to 2: erase_one_index1(2) found no entry, erase returned normally
\* and the count map still holds the 1
C33_Witness ==
    /\ Total1Mode = "Min" /\ last.op = "erase" /\ last.old = <<1, 2>> /\ ret = <<>>
    /\ Live = {} /\ issued = <<>> /\ nextId_ = 2
    /\ idx1_ = [v \in {1} |-> 1]
    /\ total1_ = 1

\* C37: after snapshots of live elements were changed out of band,
\* rebuild_ordered_index() leaves an index that is sorted under the current
\* comparator with ascending id among equivalent elements and whose members
\* are exactly the live ids.
C37_RebuildAfterOutOfBand ==
    (MaintainOrderedIndex /\ last.op = "rebuild_ordered_index") =>
        /\ SortedAndComplete(ordered_index_, cmp_)
        /\ index_cmp_ = cmp_

\* rebuild_ordered_index() has put three elements in order under ByElem2Desc
\* that an out-of-band change had left out of order
C37_Witness ==
    /\ MaintainOrderedIndex /\ last.op = "rebuild_ordered_index"
    /\ cmp_ = "ByElem2Desc"
    /\ ordered_index_ = <<2, 3, 1>>
    /\ Snap(elems_, 1) = <<2, 1>> /\ Snap(elems_, 2) = <<1, 2>> /\ Snap(elems_, 3) = <<2, 2>>

\* C34: in Min/Max mode a step (insert, update or erase) that leaves both
\* extremes equal to the Totals' prior values writes no Total cell, in the
\* combined-atomic and in the non-combined path alike.
C34_UnchangedExtremeNoWrite ==
    [][(Total1Mode # "Add" /\ Total2Mode # "Add"
        /\ total1_' = total1_ /\ total2_' = total2_) => notified' = <<>>]_vars

\* a second element equal to the first has just been pushed in the
\* non-combined Min/Max instantiation: both extremes are what they were
C34_Witness ==
    /\ ~combined_atomic_ /\ Total1Mode = "Min" /\ Total2Mode = "Max"
    /\ last.op = "push_back" /\ last.arg = 2
    /\ DOMAIN elems_ = {1, 2} /\ elems_[1] = elems_[2]
    /\ Extracted1 = {total1_} /\ Extracted2 = {total2_}
    /\ notified # <<>>

\* C35: for each apply functor provided (DefaultApplyAdd, SetApply,
\* SaturatingApply, NoopApply), every Total and every delta, the bool returned
\* is true exactly when the call changed the Total, and apply_total1 with a
\* functor other than the default writes the Total cell only when it is true.
C35_FlagIffChanged ==
    /\ last.op = "apply" => (ret[2] <=> ret[1] # last.old[1])
    /\ (last.op = "apply_total1" /\ ret # <<>>) =>
         /\ ret[2] <=> ret[1] # last.old[1]
         /\ notified # <<>> => ret[2]

\* DefaultApplyAdd has been called with the delta 0
C35_Witness ==
    /\ apply1_ = "DefaultApplyAdd" /\ last.op = "apply" /\ last.arg = 0
    /\ ret = <<last.old[1], TRUE>>

\* C36: SaturatingApply with bounds lo <= hi leaves, for every Total in
\* [lo, hi] and every delta of the type, the value min(hi, max(lo, total +
\* delta)) of exact arithmetic, with the default bounds as well.
C36_SaturatingExact ==
    (apply1_ = "SaturatingApply" /\ last.op = "apply_total1") =>
        LET exact == last.old[1] + last.arg
            floor == IF exact < minv THEN minv ELSE exact
        IN total1_ = IF floor > maxv THEN maxv ELSE floor

\* SaturatingApply with the default bounds has added a delta that takes the
\* exact sum of a Total in range above the greatest value of the type
C36_Witness ==
    /\ apply1_ = "SaturatingApply" /\ minv = TMin /\ maxv = TMax
    /\ last.op = "apply_total1"
    /\ last.old[1] \in minv..maxv
    /\ last.old[1] + last.arg > TMax
    /\ total1_ \in minv..maxv

(***************************************************************************)
(* A reordering field update next to index readers: one thread writes      *)
(* elem2Var(id), whose change callback runs statement by statement, while  *)
(* another thread calls push_back, top_k, bottom_k and                     *)
(* rebuild_ordered_index.  The callback locks ordered_mtx_ around the      *)
(* erase and again around the insert and holds nothing in between; top_k   *)
(* and bottom_k take no lock.  Total1 is in Min, Total2 in Max mode, the   *)
(* non-combined path.  Once the set is out of order only the calls that do *)
(* not search it go on: the readers and rebuild_ordered_index.             *)
(***************************************************************************)
\* the ids of the set are in strictly ascending order of its comparator on
\* the snapshots as they are now: what every std::set call relies on
IndexSorted ==
    \A i, j \in 1..Len(ordered_index_) :
        i < j => IdComparator(index_cmp_, elems_, ordered_index_[i], ordered_index_[j])

\* ordered_index_->insert(id) of the callback after the set was replaced and
\* the snapshot of id, which the new set holds already, was overwritten: the
\* set is not ordered by its comparator any more, and the search ends at the
\* node of id (nothing is inserted) or at a leaf, anywhere (a second entry)
CbIndexInsertStale ==
    /\ At("index_insert", 0)
    /\ ordered_mtx_ = 0
    /\ loc.updater.need_reinsert
    /\ \E i \in 1..Len(ordered_index_) : ordered_index_[i] = loc.updater.id
    /\ ~IndexSorted
    /\ \/ UNCHANGED ordered_index_
       \/ \E p \in 0..Len(ordered_index_) :
            ordered_index_' = SubSeq(ordered_index_, 1, p) \o <<loc.updater.id>>
                              \o SubSeq(ordered_index_, p + 1, Len(ordered_index_))
    /\ Step("index_insert", 0)
    /\ loc' = [loc EXCEPT !.updater = Did(<<"index_insert">>)]
    /\ UNCHANGED <<config, cmp_, elems_, monitors_, index_cmp_, idx1_, idx2_, total1_,
                   total2_, nextId_, ghost, coarse_mtx_, ordered_mtx_, fine, todo, got, rest>>

InitReorder ==
    /\ Total1Mode = "Min" /\ Total2Mode = "Max"
    /\ MaintainOrderedIndex = TRUE
    /\ combined_atomic_ = FALSE
    /\ coarse_lock_enabled_ = FALSE
    /\ Constructed
    /\ coarse_mtx_ = 0 /\ ordered_mtx_ = 0
    /\ combined_mtx_ = 0 /\ total1_mtx_ = 0 /\ total2_mtx_ = 0
    /\ pc = [updater |-> [at |-> "idle", n |-> 0]]
    /\ loc = [updater |-> NoLocals]
    /\ todo = <<>> /\ got = <<>>
    /\ script = <<>>

NextReorder ==
    \/ \E e2 \in Elem2Vals : IndexSorted /\ PushBack(1, e2)
    \/ TopK(MaxId)
    \/ BottomK(MaxId)
    \/ RebuildOrderedIndex
    \/ \E id \in Ids : IndexSorted /\ UpdElemVar(id)
    \/ \E x \in Elem2Vals : UpdValue(x)
    \/ CbFind
    \/ CbIndexErase
    \/ CbSnapshot
    \/ IndexSorted /\ CbIndexInsert
    \/ CbIndexInsertStale
    \/ \E n \in {1, 2} : CbEraseOneIndex(n)
    \/ \E n \in {1, 2} : CbInsertIndex(n)
    \/ \E n \in {1, 2} : CbTopIndex(n)
    \/ \E n \in {1, 2} : CbTotalValue(n)

SpecReorder == InitReorder /\ [][NextReorder]_vars

\* C39: a reordering update is atomic for the other users of the ordered
\* index: a top_k or bottom_k that asks for at least as many ids as are live
\* returns every live id, and when no update is under way the index holds
\* each live id exactly once, in sorted position.
C39_ReorderAtomic ==
    /\ (last.op \in {"top_k", "bottom_k"} /\ last.arg >= Cardinality(Live)) =>
           Live \subseteq {ret[i] : i \in 1..Len(ret)}
    /\ At("idle", 0) => SortedAndComplete(ordered_index_, index_cmp_)

\* top_k has run between the callback's erase of the id and its reinsertion
C39_Witness ==
    /\ pc.updater.at \in {"snapshot", "index_insert"}
    /\ loc.updater.need_reinsert
    /\ loc.updater.id \in Live
    /\ last.op = "top_k"
    /\ loc.updater.id \notin {ret[i] : i \in 1..Len(ret)}
    /\ ret = GreatestOf(ordered_index_, MaxId)

(***************************************************************************)
(* The read operations of one caller, in the keyed instantiation: top_k,   *)
(* bottom_k, a whole forward or reverse ordered traversal, find_by_key,    *)
(* total1, total2, size and empty, between push_back, field updates and    *)
(* erase.                                                                  *)
(***************************************************************************)
\* for (it = ordered_begin(); it != ordered_end(); ++it) *it, or the same
\* from ordered_rbegin() to ordered_rend(): the (id, elems_.at(id)) pairs
ordered_range(reverse) ==
    IF ~MaintainOrderedIndex THEN <<>>
    ELSE [i \in 1..Len(ordered_index_) |->
            LET id == ordered_index_[IF reverse THEN Len(ordered_index_) + 1 - i ELSE i]
            IN <<id, Snap(elems_, id)>>]

\* slip: the traversal takes each id out of the index as it yields it
Traverse_consuming(reverse) ==
    /\ Returned
    /\ ret' = ordered_range(reverse)
    /\ ordered_index_' = <<>>
    /\ notified' = <<>> /\ idx_ops' = 0
    /\ last' = Call(IF reverse THEN "ordered_rbegin" ELSE "ordered_begin", 0, Neutral)
    /\ UNCHANGED <<config, cmp_, elems_, monitors_, index_cmp_, idx1_, idx2_,
                   total1_, total2_, nextId_, threads, rest>>

\* a traversal from ordered_begin() / ordered_rbegin() to the end
Traverse(reverse) ==
    /\ Returned
    /\ ret' = ordered_range(reverse)
    /\ notified' = <<>> /\ idx_ops' = 0
    /\ last' = Call(IF reverse THEN "ordered_rbegin" ELSE "ordered_begin", 0, Neutral)
    /\ UNCHANGED <<config, cmp_, data, threads, rest>>

\* total1() (n = 1), total2() (n = 2)
Total(n) ==
    /\ Returned
    /\ maybe_lock => coarse_mtx_ = 0
    /\ ret' = <<IF n = 1 THEN total1_ ELSE total2_>>
    /\ notified' = <<>> /\ idx_ops' = 0
    /\ last' = Call(IF n = 1 THEN "total1" ELSE "total2", 0, Neutral)
    /\ UNCHANGED <<config, cmp_, data, threads, rest>>

\* size()
Size ==
    /\ Returned
    /\ maybe_lock => coarse_mtx_ = 0
    /\ ret' = <<size>>
    /\ notified' = <<>> /\ idx_ops' = 0
    /\ last' = Call("size", 0, Neutral)
    /\ UNCHANGED <<config, cmp_, data, threads, rest>>

\* empty()
Empty ==
    /\ Returned
    /\ maybe_lock => coarse_mtx_ = 0
    /\ ret' = <<empty>>
    /\ notified' = <<>> /\ idx_ops' = 0
    /\ last' = Call("empty", 0, Neutral)
    /\ UNCHANGED <<config, cmp_, data, threads, rest>>

ReadOps == {"top_k", "bottom_k", "ordered_begin", "ordered_rbegin", "find_by_key",
            "total1", "total2", "size", "empty"}

InitReads ==
    /\ \E i \in {<<"Add", "Add">>, <<"Min", "Max">>} :
           Total1Mode = i[1] /\ Total2Mode = i[2]
    /\ MaintainOrderedIndex = TRUE
    /\ combined_atomic_ = FALSE
    /\ coarse_lock_enabled_ = FALSE
    /\ Constructed
    /\ NoThreads
    /\ script = <<>>

NextReads ==
    \/ \E e2 \in Elem2Vals, k \in {"a", DefaultKey} : KeyedPushBack(1, e2, k)
    \/ \E id \in Ids, v \in Elem2Vals : SetElem2(id, v)
    \/ \E id \in Ids : KeyedErase(id)
    \/ \E k \in {1, MaxId} : TopK(k)
    \/ \E k \in {1, MaxId} : BottomK(k)
    \/ \E reverse \in BOOLEAN : Traverse(reverse)
    \/ \E k \in {"a", "b"} : FindByKey(k)
    \/ \E n \in {1, 2} : Total(n)
    \/ Size
    \/ Empty

SpecReads == InitReads /\ [][NextReads]_vars

\* C40: a call of top_k, bottom_k, an ordered forward or reverse traversal,
\* find_by_key, total1, total2, size or empty leaves the element store with
\* its snapshots, both Totals, both count maps, the key index, the ordered
\* index and the id counter as they were, and a traversal is a finite
\* sequence that the same traversal started again right after it repeats.
C40_ReadsChangeNothing ==
    [][last'.op \in ReadOps =>
          /\ UNCHANGED <<elems_, monitors_, ordered_index_, index_cmp_, cmp_, idx1_, idx2_,
                         total1_, total2_, nextId_, key_, key_index_>>
          /\ last'.op = "ordered_begin" =>
                 ret' = ordered_range(FALSE)' /\ Len(ret') = Cardinality(DOMAIN elems_')
          /\ last'.op = "ordered_rbegin" =>
                 ret' = ordered_range(TRUE)' /\ Len(ret') = Cardinality(DOMAIN elems_')]_vars

\* a reverse traversal of two elements with different snapshots has ended
C40_Witness ==
    /\ last.op = "ordered_rbegin"
    /\ Len(ret) = 2 /\ ret[1][2] # ret[2][2]
    /\ key_index_ # EmptyMap
    /\ ret[1][1] = ordered_index_[2]

(***************************************************************************)
(* The mutexes of fine-grained mode (coarse lock off): threads call        *)
(* push_back, erase, set_compare, rebuild_ordered_index and write element  *)
(* fields, and each call is followed lock by lock.  pc[t] is what the call *)
(* of thread t has still to do: the lock() and unlock() calls of its       *)
(* std::lock_guard blocks in the order of the source text, and <<>> when   *)
(* the call has returned.  Which blocks a call runs depends on the         *)
(* instantiation only (and, for erase and the change callback, on whether  *)
(* the id is found).                                                       *)
(***************************************************************************)
Mutexes == {"ordered_mtx_", "combined_mtx_", "total1_mtx_", "total2_mtx_"}

\* { std::lock_guard<std::mutex> g(m); ... }
guarded(m) == << <<"lock", m>>, <<"unlock", m>> >>

\* apply_total1(d) / apply_total2(d): the default addition takes no lock,
\* another apply functor runs under total<n>_mtx_
apply_total_locks(n) ==
    IF apply_is_default_add(IF n = 1 THEN apply1_ ELSE apply2_) THEN <<>>
    ELSE guarded(IF n = 1 THEN "total1_mtx_" ELSE "total2_mtx_")

\* slip: the combined path calls apply_total1 inside its combined_mtx_ block
apply_pair_locks_nested ==
    IF ~combined_atomic_
    THEN (IF Total1Mode = "Add" THEN apply_total_locks(1) ELSE <<>>)
         \o (IF Total2Mode = "Add" THEN apply_total_locks(2) ELSE <<>>)
    ELSE << <<"lock", "combined_mtx_">>, <<"lock", "total1_mtx_">>,
            <<"unlock", "total1_mtx_">>, <<"unlock", "combined_mtx_">> >>

\* apply_pair: the non-combined path calls apply_total<n> in Add mode and
\* takes no lock in Min/Max mode; the combined path is one combined_mtx_ block
apply_pair_locks ==
    IF ~combined_atomic_
    THEN (IF Total1Mode = "Add" THEN apply_total_locks(1) ELSE <<>>)
         \o (IF Total2Mode = "Add" THEN apply_total_locks(2) ELSE <<>>)
    ELSE guarded("combined_mtx_")

ordered_locks == IF MaintainOrderedIndex THEN guarded("ordered_mtx_") ELSE <<>>

\* the blocks of a call, in order
locks_of(op, found) ==
    CASE op = "push_back" -> ordered_locks \o apply_pair_locks
      [] op = "erase" -> IF found THEN ordered_locks \o apply_pair_locks ELSE <<>>
      [] op = "update" -> IF found THEN ordered_locks \o ordered_locks \o apply_pair_locks
                          ELSE <<>>
      [] op = "set_compare" -> ordered_locks
      [] op = "rebuild_ordered_index" -> ordered_locks

LockedOps == {"push_back", "erase", "update", "set_compare", "rebuild_ordered_index"}

Owner(m) ==
    CASE m = "ordered_mtx_" -> ordered_mtx_
      [] m = "combined_mtx_" -> combined_mtx_
      [] m = "total1_mtx_" -> total1_mtx_
      [] m = "total2_mtx_" -> total2_mtx_

\* mutex m passes from owner a to owner b
Handover(m, b) ==
    /\ ordered_mtx_' = IF m = "ordered_mtx_" THEN b ELSE ordered_mtx_
    /\ combined_mtx_' = IF m = "combined_mtx_" THEN b ELSE combined_mtx_
    /\ total1_mtx_' = IF m = "total1_mtx_" THEN b ELSE total1_mtx_
    /\ total2_mtx_' = IF m = "total2_mtx_" THEN b ELSE total2_mtx_

\* thread t, back from its last call, enters the next
LockedCall(t, op, found) ==
    /\ pc[t] = <<>> /\ todo[t] > 0
    /\ todo' = [todo EXCEPT ![t] = @ - 1]
    /\ pc' = [pc EXCEPT ![t] = locks_of(op, found)]
    /\ UNCHANGED <<config, cmp_, data, ghost, coarse_mtx_, ordered_mtx_, fine, loc, got, rest>>

\* std::mutex::lock: blocks while the mutex is owned
Lock(t) ==
    /\ pc[t] # <<>> /\ pc[t][1][1] = "lock"
    /\ Owner(pc[t][1][2]) = 0
    /\ Handover(pc[t][1][2], t)
    /\ pc' = [pc EXCEPT ![t] = Tail(@)]
    /\ UNCHANGED <<config, cmp_, data, ghost, coarse_mtx_, loc, todo, got, rest>>

\* the end of the block: std::mutex::unlock; after the last block the call
\* returns
Unlock(t) ==
    /\ pc[t] # <<>> /\ pc[t][1][1] = "unlock"
    /\ Handover(pc[t][1][2], 0)
    /\ pc' = [pc EXCEPT ![t] = Tail(@)]
    /\ UNCHANGED <<config, cmp_, data, ghost, coarse_mtx_, loc, todo, got, rest>>

\* the instantiations: combined Totals; additive Totals with SetApply on the
\* non-combined path; Min/Max Totals on the non-combined path
InitLocks ==
    /\ \E i \in {<<"Add", "Add", TRUE, "DefaultApplyAdd">>,
                 <<"Add", "Add", FALSE, "SetApply">>,
                 <<"Min", "Max", FALSE, "DefaultApplyAdd">>} :
           /\ Total1Mode = i[1] /\ Total2Mode = i[2] /\ combined_atomic_ = i[3]
           /\ ConstructedWith("DefaultDelta1", i[4], "DefaultDelta2", i[4])
    /\ MaintainOrderedIndex = TRUE
    /\ coarse_lock_enabled_ = FALSE
    /\ coarse_mtx_ = 0 /\ ordered_mtx_ = 0
    /\ combined_mtx_ = 0 /\ total1_mtx_ = 0 /\ total2_mtx_ = 0
    /\ pc = [t \in Threads |-> <<>>]
    /\ loc = <<>>
    /\ todo = [t \in Threads |-> PerThread]
    /\ got = <<>>
    /\ script = <<>>

ThreadStep(t) ==
    \/ \E op \in LockedOps, found \in BOOLEAN : LockedCall(t, op, found)
    \/ Lock(t)
    \/ Unlock(t)

NextLocks == \E t \in Threads : ThreadStep(t)

SpecLocks == InitLocks /\ [][NextLocks]_vars

\* every thread that can take a step is scheduled again and again
SpecLocksFair == SpecLocks /\ \A t \in Threads : WF_vars(ThreadStep(t))

Held(t) == {m \in Mutexes : Owner(m) = t}

\* C38: in fine-grained mode no thread holds two of ordered_mtx_,
\* combined_mtx_, total1_mtx_, total2_mtx_ at once, and under fair scheduling
\* every push_back, erase, field update, set_compare and
\* rebuild_ordered_index that a thread has entered returns.
C38_OneMutexAtATime ==
    /\ [](\A t \in Threads : Cardinality(Held(t)) <= 1)
    /\ \A t \in Threads : (pc[t] # <<>>) ~> (pc[t] = <<>>)

\* one thread is inside the combined_mtx_ block of its apply_pair while
\* another has reached its own and waits for the mutex
C38_Witness ==
    \E t, u \in Threads :
        /\ Held(t) = {"combined_mtx_"}
        /\ pc[u] = guarded("combined_mtx_")

====
